---- MODULE Spec2Model ----
(***************************************************************************)
(* syncnswim: the device monitor (main.py, SyncNSwimApp.run), the sync     *)
(* pass (sync_episodes, sync_random_music, fetch_and_transfer_episodes),   *)
(* the writable store (file_transfer.py, FileTransfer) and the device      *)
(* resident manifest (music_selector.py, MusicSelector).                   *)
(***************************************************************************)
EXTENDS Integers, Sequences, FiniteSets, TLC

(***************************************************************************)
(* Bounds of the model.                                                    *)
(***************************************************************************)
MaxMounts == 2      \* mount events of the device during one run
MaxPasses == 2      \* sync passes a test harness runs on one device
MaxFree == 3        \* largest free space of the device, in size units
MaxCalls == 2       \* calls of copy_file or ensure_music_directory one
                    \* test makes, directly or through copy_files
MaxDevs == 2        \* block devices of the host of a detection test
MaxTimeout == 3     \* largest timeout of wait_for_device, in ticks
MaxInterval == 2    \* largest check_interval of wait_for_device, in ticks
MaxTook == 2        \* longest time one detection attempt takes, in ticks

(***************************************************************************)
(* Program constants.                                                      *)
(***************************************************************************)
HeartbeatEvery == 12    \* main.py:257  check_count % 12
MaxNameLen == 200       \* file_transfer.py:270

None == "None"                    \* no mount path
NoName == <<>>                    \* no file name (a None result or argument)
NoSpace == 0 - 1                  \* get_device_free_space() returning None
Denied == 0 - 1                   \* shutil.copy2 cannot open the destination

(***************************************************************************)
(* File names are sequences of one-character strings.                      *)
(***************************************************************************)
Alnum == {"a", "b", "e", "u", "m", "p", "A", "E", "Q", "1", "2", "3"}
SafePunct == {" ", "-", "_", "."}

\* file_transfer.py:267: the ampersand kept as well
SanitizeCharKeepAmpersand(c) ==
  IF c \in Alnum \/ c \in SafePunct \/ c = "&" THEN c ELSE "_"

\* file_transfer.py:267: every character kept
SanitizeCharKeep(c) == c

\* file_transfer.py:267   c if c.isalnum() or c in (' ', '-', '_', '.') else '_'
SanitizeChar(c) == IF c \in Alnum \/ c \in SafePunct THEN c ELSE "_"

\* os.path.splitext: the extension starts at the last dot, unless that dot
\* is the leading character of the name
ExtStart(s) ==
  LET dots == {i \in 1..Len(s) : s[i] = "."}
      last == CHOOSE i \in dots : \A j \in dots : j <= i
  IN IF dots = {} THEN Len(s) + 1
     ELSE IF \A j \in 1..(last - 1) : s[j] = "." THEN Len(s) + 1
     ELSE last

\* file_transfer.py:255-274
_sanitize_filename(filename) ==
  LET sanitized == [i \in 1..Len(filename) |-> SanitizeChar(filename[i])]
      k == ExtStart(sanitized)
      name == SubSeq(sanitized, 1, k - 1)
      ext == SubSeq(sanitized, k, Len(sanitized))
      keep == MaxNameLen - Len(ext)
  IN IF Len(sanitized) > MaxNameLen
     THEN (IF keep >= 0 THEN SubSeq(name, 1, keep)
                        ELSE SubSeq(name, 1, Len(name) + keep)) \o ext
     ELSE sanitized

(***************************************************************************)
(* The host music library: source files with their directory, name, size. *)
(***************************************************************************)
F1 == [dir |-> "m", name |-> <<"a">>]
F2 == [dir |-> "m", name |-> <<"b", "#">>]
F3 == [dir |-> "m/s", name |-> <<"b", "_">>]
EP == [dir |-> "dl", name |-> <<"e">>]      \* a downloaded podcast episode

WalkOrder == <<F1, F2, F3>>                 \* order in which os.walk lists
Libraries == {{}, {F1, F2}, {F1, F2, F3}}

SizeOf(f) == IF f = F1 THEN 1 ELSE IF f = EP THEN 1 ELSE 2
ContentOf(f) == [size |-> SizeOf(f), data |-> f]
Partial == [dir |-> "partial", name |-> <<>>]   \* data of a cut-off copy
UserData == [dir |-> "user", name |-> <<>>]     \* data the user put there

\* os.path.basename
basename(f) == f.name

Paths == {"p1", "p2"}                       \* mount paths the OS may pick
MusicDirs == {"", "MUSIC"}                  \* device_music_directory


(***************************************************************************)
(* State.                                                                  *)
(***************************************************************************)
VARIABLES
  \* ---- configuration (config.json, read through ConfigManager) ----
  hasMusicApi,        \* ConfigManager offers get_music_source_directory & co.
  musicSource,        \* "none" | "missing" | "dir": music_source_directory
  library,            \* audio files under the music source directory
  songCount,          \* random_songs_count
  musicDir,           \* device_music_directory
  podcasts,           \* number of enabled podcasts
  \* ---- the operating system and the device ----
  osMounted,          \* the device is mounted
  osPath,             \* where it is mounted
  ro,                 \* mounted with the "ro" option
  permOk,             \* the user may write to the mount
  dirOk,              \* the music directory can be created and written
  dev,                \* files of the device: <<directory, name>> -> content
  devDirs,            \* directories that exist on the device
  free,               \* free space of the device
  manifest,           \* .syncnswim_music.json at the device root
  hostFiles,          \* files of the host that are not on the device
  \* ---- SyncNSwimApp ----
  pc,                 \* position of the single thread of control
  caller,             \* "initial" | "loop": who called sync_episodes
  last_storage_state,
  file_transfer,      \* None or the FileTransfer held by the app
  check_count,        \* check_count modulo HeartbeatEvery
  current_state,      \* the latest sample of is_device_mounted()
  exitStatus,         \* "running" | "exit0" | "interrupted" | "error"
  \* ---- locals of the running sync pass ----
  mount_point,
  previous_files,     \* manifest entries still to delete
  selected_files,     \* selected sources still to copy
  copied_files,
  \* ---- history ----
  mountGen,           \* number of mount events so far
  passGen,            \* mountGen when the latest sync pass began its work
  syncCount,          \* number of sync passes invoked so far
  everSampledMounted, \* some sample of is_device_mounted() was True
  lastSample,         \* the latest sample of is_device_mounted(), in run()
  syncedOnPoll,       \* the latest iteration of the loop called sync_episodes
  reachedLoop,        \* run() entered the poll loop
  heartbeat,          \* the latest poll printed the heartbeat
  passLog,            \* device operations of the running music pass
  destinations,       \* names returned by the successful copies of the pass
  touched,            \* names the copies of the pass wrote or returned
  attempts,           \* the calls of copy_file of the pass, with results
  oldManifest,        \* what load_selected_files_list returned in the pass
  healthy,            \* the device stayed mounted read-write during the pass
  saved,              \* the pass wrote the manifest
  call,               \* the latest call of a test, on FileTransfer or
                      \* MusicSelector
  \* ---- StorageDetector under test ----
  mountTable,         \* the block devices of the host
  tools,              \* how the commands of the host behave
  found,              \* the result of the latest detection method
  tried,              \* the detection methods run so far
  clock,              \* time.time()
  wait                \* the locals and the history of wait_for_device

cfgVars == <<hasMusicApi, musicSource, library, songCount, musicDir, podcasts>>
osVars == <<osMounted, osPath, ro, permOk, dirOk>>
devVars == <<dev, devDirs, free, manifest>>
hostVars == <<hostFiles>>
appVars == <<last_storage_state, file_transfer, check_count, current_state>>
passVars == <<mount_point, previous_files, selected_files, copied_files>>
apiVars == <<call>>
detVars == <<mountTable, tools, found, tried, clock, wait>>
monVars == <<everSampledMounted, lastSample, syncedOnPoll, reachedLoop,
            heartbeat>>
histVars == <<monVars, passLog, touched, attempts,
              destinations, oldManifest, healthy, saved>>
vars == <<cfgVars, hostVars, osVars, devVars, appVars, passVars, histVars,
          apiVars, detVars, pc, caller, exitStatus, mountGen, passGen,
          syncCount>>

(***************************************************************************)
(* ConfigManager.                                                          *)
(***************************************************************************)
\* config_manager.py:137-139
get_device_music_directory == musicDir

\* config_manager.py:69-71: the number of enabled podcasts
get_enabled_podcasts == podcasts

\* the music source directory of the configuration: "none" when none is
\* configured, "missing" when the configured directory does not exist
get_music_source_directory == musicSource

\* the configured sample count
get_random_songs_count == songCount

(***************************************************************************)
(* The operating system as the program sees it.                            *)
(***************************************************************************)
\* the device's filesystem is reachable under path mp
DevAt(mp) == osMounted /\ osPath = mp

\* open(..., 'w'), os.remove, os.makedirs succeed under mp
CanWrite(mp) == DevAt(mp) /\ ~ro /\ permOk

\* a detector that remembers the path where it first found the device
find_device_mount_point_cached == IF osMounted THEN "p1" ELSE None

\* storage_detector.py:64-231
find_device_mount_point == IF osMounted THEN osPath ELSE None

\* storage_detector.py:347-349
is_device_mounted == find_device_mount_point # None

\* file_transfer.py:105-133   (found: the path is in /proc/mounts)
_get_mount_info(mp) == [found |-> DevAt(mp), read_only |-> DevAt(mp) /\ ro]

(***************************************************************************)
(* FileTransfer.                                                           *)
(***************************************************************************)
\* file_transfer.py:14-24
FileTransfer(mp, music_directory) ==
  [device_mount_point |-> mp, music_directory |-> music_directory]

\* file_transfer.py:36: the read-only check ignored
ReadOnlyIgnored(mount_info) == FALSE

\* file_transfer.py:35-36   if mount_info: if mount_info.get('read_only'):
ReadOnlyMount(mount_info) == mount_info.found /\ mount_info.read_only

\* file_transfer.py:26-103: the result of ensure_music_directory.  The
\* probe file is written at the mount root; the music directory, when it
\* is not the root, must be writable or be created.
ensure_music_directory(ft) ==
  LET mount_info == _get_mount_info(ft.device_mount_point)
  IN IF ReadOnlyMount(mount_info) THEN FALSE
     ELSE /\ CanWrite(ft.device_mount_point)
          /\ (ft.music_directory = "" \/ dirOk)

\* file_transfer.py:47-91: the writes ensure_music_directory attempts on
\* the device: the probe file, then os.makedirs for a missing directory
EnsureWrites(ft) ==
  LET mount_info == _get_mount_info(ft.device_mount_point)
  IN IF ReadOnlyMount(mount_info) THEN <<>>
     ELSE <<"probe">> \o
          (IF /\ CanWrite(ft.device_mount_point)
              /\ ft.music_directory # ""
              /\ ft.music_directory \notin devDirs
           THEN <<"mkdir">> ELSE <<>>)

\* file_transfer.py:82-91: the directories after ensure_music_directory
DirsAfterEnsure(ft) ==
  IF ensure_music_directory(ft) /\ ft.music_directory # ""
  THEN devDirs \cup {ft.music_directory} ELSE devDirs

\* file_transfer.py:144-157
get_device_free_space(ft) ==
  IF DevAt(ft.device_mount_point) THEN free ELSE NoSpace

\* a function without one of its arguments
Without(f, x) == [y \in (DOMAIN f) \ {x} |-> f[y]]
\* a function with one more (or one changed) argument
With(f, x, v) == [y \in (DOMAIN f) \cup {x} |-> IF y = x THEN v ELSE f[y]]

\* the device fails from the first os.path.getsize of the call on
StatFails == 0 - 2

\* what the device does during a call of copy_file on a source of the
\* given size: StatFails; Denied (shutil.copy2 cannot open the
\* destination); or the number of bytes shutil.copy2 writes before it
\* ends (all of them: success)
IoOutcomes(size) == {StatFails, Denied} \cup (0..size)

\* file_transfer.py:210: every existing destination taken as identical
SizeMatchAlways(source_size, destination_size) == TRUE

\* file_transfer.py:210: no existing destination taken as identical
SizeMatchNever(source_size, destination_size) == FALSE

\* file_transfer.py:210
\*   os.path.getsize(source_file) == os.path.getsize(destination_path)
SizeMatch(source_size, destination_size) == source_size = destination_size

\* file_transfer.py:220: the free-space check left out
SpaceNeverShort(file_size, free_space) == FALSE

\* file_transfer.py:220
\*   free_space is not None and file_size > free_space
SpaceShort(file_size, free_space) ==
  free_space # NoSpace /\ file_size > free_space

\* file_transfer.py:190: the existence check left out
SourceNeverMissing(srcExists) == FALSE

\* file_transfer.py:190   if not os.path.exists(source_file):
SourceMissing(srcExists) == ~srcExists

\* file_transfer.py:179-234.  source_file: the source, srcExists: whether
\* it (still) exists, destination_filename: None or a name, io: what the
\* device does.  Yields the returned name (NoName when copy_file returns
\* None), whether an exception leaves copy_file, the writes on the device
\* in order, and the device afterwards.
copy_file(ft, source_file, srcExists, destination_filename, io) ==
  LET fname == _sanitize_filename(IF destination_filename = NoName
                                  THEN basename(source_file)
                                  ELSE destination_filename)
      destination_path == <<ft.music_directory, fname>>
      exists == destination_path \in DOMAIN dev
      oldSize == IF exists THEN dev[destination_path].size ELSE 0
      file_size == SizeOf(source_file)
      free_space == get_device_free_space(ft)
      same == [ret |-> NoName, raised |-> FALSE, name |-> fname,
               writes |-> <<>>, dev |-> dev, free |-> free,
               dirs |-> devDirs]
      probed == [same EXCEPT !.writes = EnsureWrites(ft)]
      ensured == [probed EXCEPT !.dirs = DirsAfterEnsure(ft)]
      written == [ensured EXCEPT !.writes = Append(@, "data")]
  IN IF SourceMissing(srcExists) THEN same
     ELSE IF ~ensure_music_directory(ft) THEN probed
     ELSE IF exists /\ io = StatFails
          THEN [ensured EXCEPT !.raised = TRUE]     \* line 210 raises
     ELSE IF exists /\ SizeMatch(file_size, oldSize)
          THEN [ensured EXCEPT !.ret = fname]
     ELSE IF SpaceShort(file_size, free_space) THEN ensured
     ELSE IF io \in {StatFails, Denied} THEN ensured
     ELSE IF io = file_size
          THEN [written EXCEPT !.ret = fname,
                  !.dev = With(dev, destination_path, ContentOf(source_file)),
                  !.free = free + oldSize - file_size]
     ELSE [written EXCEPT
                  !.dev = With(dev, destination_path,
                               [size |-> io, data |-> Partial]),
                  !.free = free + oldSize - io]

(***************************************************************************)
(* MusicSelector and the manifest.                                         *)
(***************************************************************************)
NoManifest == [kind |-> "absent", files |-> <<>>, count |-> 0]
\* a manifest file that is not JSON
CorruptManifest == [kind |-> "corrupt", files |-> <<>>, count |-> 0]
\* the JSON object {"files": names, "count": len(names)}
ListManifest(names) == [kind |-> "list", files |-> names, count |-> Len(names)]

\* the sequences without repetition of exactly n elements of S
Arrangements(S, n) ==
  {q \in [1..n -> S] : \A i, j \in 1..n : i # j => q[i] # q[j]}

\* subsequence of the elements of q that belong to S
RECURSIVE Filter(_, _)
Filter(q, S) ==
  IF q = <<>> THEN <<>>
  ELSE (IF Head(q) \in S THEN <<Head(q)>> ELSE <<>>) \o Filter(Tail(q), S)

\* music_selector.py:30-52
find_all_music_files ==
  IF get_music_source_directory = "dir"
  THEN Filter(WalkOrder, library) ELSE <<>>

\* music_selector.py:71: random.sample(all_files, count) raises ValueError
\* unless 0 <= count <= len(all_files)
SampleRaises(all_files, count) == count < 0 \/ count > Len(all_files)

\* music_selector.py:54-73: select_random_songs raises
select_random_songs_raises(count) ==
  LET all_files == find_all_music_files
  IN /\ all_files # <<>>
     /\ ~(Len(all_files) <= count)
     /\ SampleRaises(all_files, count)

\* music_selector.py:54-73: the lists select_random_songs may return
select_random_songs(count) ==
  LET all_files == find_all_music_files
  IN IF all_files = <<>> THEN {<<>>}
     ELSE IF Len(all_files) <= count THEN {all_files}
     ELSE IF SampleRaises(all_files, count) THEN {}
     ELSE Arrangements({all_files[i] : i \in 1..Len(all_files)}, count)

\* music_selector.py:88-95: the record save_selected_files_list writes
ManifestOf(file_paths) ==
  LET filenames == [i \in 1..Len(file_paths) |-> basename(file_paths[i])]
  IN [kind |-> "list", files |-> filenames, count |-> Len(filenames)]

\* music_selector.py:75-103: the manifest after save_selected_files_list
save_selected_files_list(mp, file_paths) ==
  IF CanWrite(mp) THEN ManifestOf(file_paths) ELSE manifest

\* music_selector.py:105-127: the list read back to front
LoadReversed(mp) ==
  IF ~DevAt(mp) \/ manifest.kind # "list" THEN <<>>
  ELSE [i \in 1..Len(manifest.files) |->
          manifest.files[Len(manifest.files) + 1 - i]]

\* music_selector.py:105-127
load_selected_files_list(mp) ==
  IF ~DevAt(mp) \/ manifest.kind # "list" THEN <<>> ELSE manifest.files

(***************************************************************************)
(* StorageDetector.  Strings are sequences of one-character strings; the   *)
(* host's block devices are records of a device name, a label (empty when  *)
(* the filesystem has none), the place where the device is mounted and a   *)
(* filesystem type.                                                        *)
(***************************************************************************)
NoPath == <<>>                           \* None, or an empty cell
Dash == <<"-">>

\* storage_detector.py:16-23: self.device_name
device_name == <<"S", "h">>

sd == <<"s", "d">>
mmcblk == <<"m", "m", "c", "b", "l", "k">>
slash == <<"/">>
devdir == <<"/", "d", "e", "v", "/">>
media == <<"/", "m", "e", "d", "i", "a">>
mnt == <<"/", "m", "n", "t">>
runmedia == <<"/", "r", "u", "n">> \o media
vfat == <<"v", "f", "a", "t">>

\* str.lower() of one character
LowerChar(c) == IF c = "S" THEN "s" ELSE IF c = "H" THEN "h" ELSE c

\* str.lower()
Lower(s) == [i \in 1..Len(s) |-> LowerChar(s[i])]

\* sub in s
Contains(s, sub) ==
  \E i \in 0..(Len(s) - Len(sub)) : SubSeq(s, i + 1, i + Len(sub)) = sub

\* s.startswith(p)
StartsWith(s, p) == Len(s) >= Len(p) /\ SubSeq(s, 1, Len(p)) = p

\* device.endswith(('1', ..., '9'))
EndsWithDigit(s) ==
  s # <<>> /\ s[Len(s)] \in {"1", "2", "3", "4", "5", "6", "7", "8", "9"}

\* str.replace(old, new)
RECURSIVE Replace(_, _, _)
Replace(s, old, new) ==
  IF s = <<>> THEN <<>>
  ELSE IF StartsWith(s, old)
       THEN new \o Replace(SubSeq(s, Len(old) + 1, Len(s)), old, new)
       ELSE <<Head(s)>> \o Replace(Tail(s), old, new)

\* the place of the first space of s, Len(s) + 1 when it has none
FirstSpace(s) ==
  IF \E i \in 1..Len(s) : s[i] = " "
  THEN CHOOSE i \in 1..Len(s) : s[i] = " " /\ \A j \in 1..(i - 1) : s[j] # " "
  ELSE Len(s) + 1

\* str.split(): the words of a line
RECURSIVE Words(_)
Words(s) ==
  IF s = <<>> THEN <<>>
  ELSE LET k == FirstSpace(s)
       IN (IF k > 1 THEN <<SubSeq(s, 1, k - 1)>> ELSE <<>>)
            \o Words(SubSeq(s, k + 1, Len(s)))

\* a space as lsblk -r writes it, and as /proc/mounts writes it
x20 == <<"\\", "x", "2", "0">>
o040 == <<"\\", "0", "4", "0">>

\* the candidate matches whatever it is
MatchesAlways(candidate) == TRUE

\* storage_detector.py:103, 108, 146, 151, 179, 219:
\*   self.device_name.lower() in candidate.lower()
Matches(candidate) == Contains(Lower(candidate), Lower(device_name))

\* a mount path is a parent directory, an entry of it and what follows
NotMounted == [base |-> <<>>, item |-> <<>>, sub |-> <<>>]
MountPaths ==
  { [base |-> media, item |-> <<"S", "H">>, sub |-> <<>>],    \* /media/SH
    [base |-> media, item |-> <<"S", "H", " ", "1">>,
     sub |-> <<>>],                                           \* /media/SH 1
    [base |-> media, item |-> <<"x">>, sub |-> <<>>],         \* /media/x
    [base |-> runmedia, item |-> <<"s", "h">>,
     sub |-> <<"/", "x">>] }                             \* /run/media/sh/x

\* os.path.join(base_dir, item), and the rest of the mount path
PathStr(at) == IF at = NotMounted THEN NoPath
               ELSE at.base \o slash \o at.item \o at.sub

DevNames == { <<"s", "d", "b", "1">>, <<"s", "d", "c">>,
              <<"n", "v", "m", "e", "0">> }
Labels == { <<>>, <<"S", "H">>, <<"x">> }

\* the block devices a host may have
Devices ==
  [name : DevNames, label : Labels, at : MountPaths \cup {NotMounted},
   fstype : {vfat}]

\* the hosts: at most n devices, no two with one name or one mount path
Tables(n) ==
  UNION { {t \in [1..k -> Devices] :
             \A i, j \in 1..k :
               i # j => /\ t[i].name # t[j].name
                        /\ (t[i].at = NotMounted \/ t[i].at # t[j].at)} :
          k \in 0..n }

\* the devices of the host that are mounted, in the order of the table
RECURSIVE MountedOf(_)
MountedOf(table) ==
  IF table = <<>> THEN <<>>
  ELSE (IF Head(table).at # NotMounted THEN <<Head(table)>> ELSE <<>>)
         \o MountedOf(Tail(table))

\* how the commands and files that the detector uses behave on the host
ToolsOk ==
  [lsblk |-> "ok", procmounts |-> "ok", blkid |-> "ok", listdir |-> "ok",
   ismount |-> "findmnt", df |-> "ok"]
ToolStates ==
  [lsblk : {"ok", "raise"}, procmounts : {"ok", "raise"},
   blkid : {"ok", "raise"}, listdir : {"ok", "raise"},
   ismount : {"findmnt", "findmnt_raise", "mountpoint", "mountpoint_raise",
              "stat", "stat_raise"},
   df : {"ok", "raise"}]

\* the first hit of a list of results, NoPath when there is none
RECURSIVE FirstHit(_)
FirstHit(hits) ==
  IF hits = <<>> THEN NoPath
  ELSE IF Head(hits) # NoPath THEN Head(hits) ELSE FirstHit(Tail(hits))

\* what a method gives: a hit, or an exception that ended it
Hit(p) == [hit |-> p, raised |-> FALSE]
Raised == [hit |-> NoPath, raised |-> TRUE]

\* an exception of a method goes up to the caller
Uncaught(r) == r

\* storage_detector.py:118-119, 161-162, 186-190, 227-228: "except Exception"
\* around a method: the exception is printed and the method gives nothing
Caught(r) == IF r.raised THEN Hit(NoPath) ELSE r

\* one cell of a row of "lsblk -n -r": line.split() drops an empty cell
Cell(x) == IF x = <<>> THEN <<>> ELSE <<x>>

\* storage_detector.py:80-91: the words of the row of a device in the
\* output of lsblk -o NAME,LABEL,MOUNTPOINT,FSTYPE -n -r
LsblkLine(d) ==
  <<d.name>> \o Cell(d.label)
    \o Cell(Replace(PathStr(d.at), <<" ">>, x20)) \o Cell(d.fstype)

\* storage_detector.py:92-110: one row of lsblk
LsblkMatch(parts) ==
  IF Len(parts) >= 2
  THEN LET name == parts[1]
           label == IF parts[2] # Dash THEN parts[2] ELSE NoPath
           mountpoint == IF Len(parts) > 2 /\ parts[3] # Dash
                         THEN parts[3] ELSE NoPath
       IN IF /\ mountpoint # NoPath
             /\ (StartsWith(name, sd) \/ StartsWith(name, mmcblk))
             /\ \/ (label # NoPath /\ Matches(label))
                \/ Matches(mountpoint)
          THEN mountpoint ELSE NoPath
  ELSE NoPath

\* storage_detector.py:78-119: method 1, inside its try
Method1(table, t) ==
  IF t.lsblk # "ok" THEN Raised
  ELSE Hit(FirstHit([i \in 1..Len(table) |->
                       LsblkMatch(LsblkLine(table[i]))]))

\* storage_detector.py:233-252
_get_device_label(device, table, t) ==
  IF t.blkid # "ok" THEN NoPath
  ELSE FirstHit([i \in 1..Len(table) |->
                   IF devdir \o table[i].name = device
                   THEN table[i].label ELSE NoPath])

\* storage_detector.py:140, 215
Removable(mountpoint) ==
  \/ Contains(mountpoint, media)
  \/ Contains(mountpoint, mnt)
  \/ Contains(mountpoint, runmedia)

\* the words of the line of a mounted device in /proc/mounts
ProcLine(d) ==
  <<devdir \o d.name, Replace(PathStr(d.at), <<" ">>, o040), d.fstype>>

\* storage_detector.py:142
\*   mountpoint.replace('\\040', ' ').replace('\\x20', ' ')
Normalized(mountpoint) ==
  Replace(Replace(mountpoint, o040, <<" ">>), x20, <<" ">>)

\* storage_detector.py:134-136: the devices that method 2 leaves out
SkippedDevice(device) ==
  Contains(device, devdir \o sd) /\ ~EndsWithDigit(device)

\* storage_detector.py:127-154: one line of /proc/mounts
ProcMatch(parts, table, t) ==
  IF Len(parts) >= 2
  THEN LET device == parts[1]
           mountpoint == parts[2]
           normalized_mountpoint == Normalized(mountpoint)
           label == _get_device_label(device, table, t)
       IN IF SkippedDevice(device)
          THEN NoPath                                   \* continue
          ELSE IF /\ \/ Contains(device, devdir \o sd)
                     \/ Contains(device, devdir \o mmcblk)
                  /\ Removable(mountpoint)
                  /\ \/ (label # NoPath /\ Matches(label))
                     \/ Matches(normalized_mountpoint)
               THEN normalized_mountpoint ELSE NoPath
  ELSE NoPath

\* storage_detector.py:122-162: method 2, inside its try
Method2(table, t) ==
  IF t.procmounts # "ok" THEN Raised
  ELSE LET lines == MountedOf(table)
       IN Hit(FirstHit([i \in 1..Len(lines) |->
                          ProcMatch(ProcLine(lines[i]), table, t)]))

\* storage_detector.py:254-283: [ret |-> the result, raised |-> an exception
\* left the function].  An exception other than FileNotFoundError raised by
\* the mountpoint command is raised inside a handler, where the last
\* "except Exception" of the function does not catch it.
_is_mount_point(path, table, t) ==
  LET is == \E i \in 1..Len(table) : PathStr(table[i].at) = path
  IN CASE t.ismount = "findmnt" -> [ret |-> is, raised |-> FALSE]
       [] t.ismount = "findmnt_raise" -> [ret |-> FALSE, raised |-> FALSE]
       [] t.ismount = "mountpoint" -> [ret |-> is, raised |-> FALSE]
       [] t.ismount = "mountpoint_raise" -> [ret |-> FALSE, raised |-> TRUE]
       [] t.ismount = "stat" -> [ret |-> is, raised |-> FALSE]
       [] OTHER -> [ret |-> FALSE, raised |-> FALSE]

\* storage_detector.py:166
BaseDirs == <<runmedia, media, mnt>>

\* os.listdir(base_dir): the entries of a parent directory
RECURSIVE Items(_, _)
Items(base_dir, table) ==
  IF table = <<>> THEN <<>>
  ELSE (IF Head(table).at.base = base_dir
        THEN <<Head(table).at.item>> ELSE <<>>)
         \o Items(base_dir, Tail(table))

\* storage_detector.py:172-183: the loop over the entries
RECURSIVE ScanItems(_, _, _, _)
ScanItems(base_dir, items, table, t) ==
  IF items = <<>> THEN Hit(NoPath)
  ELSE LET item == Head(items)
           item_path == base_dir \o slash \o item
           im == _is_mount_point(item_path, table, t)
       IN IF im.raised THEN Raised
          ELSE IF im.ret /\ Matches(item) THEN Hit(item_path)
          ELSE ScanItems(base_dir, Tail(items), table, t)

\* storage_detector.py:167-190: one parent directory, inside its try
ScanBase(base_dir, table, t) ==
  IF Items(base_dir, table) = <<>> THEN Hit(NoPath)
  ELSE IF t.listdir # "ok" THEN Raised
  ELSE ScanItems(base_dir, Items(base_dir, table), table, t)

\* the words of the line of a mounted device in the output of df -h -T
DfLine(d) ==
  <<devdir \o d.name, d.fstype, <<"1", "G">>, <<"1", "G">>, <<"1", "G">>,
    <<"1", "%">>>> \o Words(PathStr(d.at))

\* os.path.isdir(path): a mount path, or a directory above one
IsDir(path, table) ==
  \E i \in 1..Len(table) :
     /\ table[i].at # NotMounted
     /\ path \in {PathStr(table[i].at), table[i].at.base,
                  table[i].at.base \o slash \o table[i].at.item}

\* storage_detector.py:208-221: one line of df
DfMatch(parts, table) ==
  IF Len(parts) >= 7
  THEN LET mountpoint == parts[7]
       IN IF /\ Removable(mountpoint)
             /\ IsDir(mountpoint, table)
             /\ Matches(mountpoint)
          THEN mountpoint ELSE NoPath
  ELSE NoPath

\* storage_detector.py:195-228: method 4, inside its try
Method4(table, t) ==
  IF t.df # "ok" THEN Raised
  ELSE LET lines == MountedOf(table)
       IN Hit(FirstHit([i \in 1..Len(lines) |->
                          DfMatch(DfLine(lines[i]), table)]))

\* storage_detector.py:164-192: method 3, each parent directory in its try
Method3(table, t) ==
  LET r == [i \in 1..Len(BaseDirs) |->
              Caught(ScanBase(BaseDirs[i], table, t))]
  IN IF \E i \in 1..Len(r) : r[i].raised THEN Raised
     ELSE Hit(FirstHit([i \in 1..Len(r) |-> r[i].hit]))

\* storage_detector.py:64-231: the four methods in their order
MethodResult(k, table, t) ==
  IF k = 1 THEN Caught(Method1(table, t))
  ELSE IF k = 2 THEN Caught(Method2(table, t))
  ELSE IF k = 3 THEN Method3(table, t)
  ELSE Caught(Method4(table, t))

\* storage_detector.py:64-231: the mount path find_device_mount_point
\* returns on a host, NoPath for None
find_device_mount_point_on(table, t) ==
  FirstHit([k \in 1..4 |-> MethodResult(k, table, t).hit])

(***************************************************************************)
(* Initial states.                                                         *)
(***************************************************************************)
MountModes == {"rw", "ro", "noperm"}

\* no call of the FileTransfer API has been made
NoCall ==
  [op |-> "none", ft |-> FileTransfer(None, ""), source |-> F1,
   srcExists |-> FALSE, destination_filename |-> NoName, io |-> Denied,
   ret |-> NoName, raised |-> FALSE, name |-> NoName, writes |-> <<>>,
   before |-> << >>, mount_info |-> _get_mount_info(None),
   free_space |-> NoSpace, gen |-> 0, repeats |-> FALSE, ok |-> FALSE,
   batch |-> <<>>, attempted |-> <<>>, outcomes |-> <<>>,
   returned |-> FALSE, n |-> 0]

\* the FileTransfer an app holds when it holds none (main.py:29)
NoTransfer == [device_mount_point |-> None, music_directory |-> ""]

\* wait_for_device is not running
NoWait ==
  [timeout |-> 0, check_interval |-> 0, start_time |-> 0, check_count |-> 0,
   results |-> <<>>, sleeps |-> 0, slept |-> 0, ret |-> NoPath,
   returned |-> FALSE, elapsed |-> 0]

\* the program counter at each detection method
Stage == <<"det_m1", "det_m2", "det_m3", "det_m4">>

\* no StorageDetector is under test
DetIdle ==
  /\ mountTable = <<>>
  /\ tools = ToolsOk
  /\ found = NoPath
  /\ tried = <<>>
  /\ clock = 0
  /\ wait = NoWait

\* SyncNSwimApp.__init__ (main.py:19-29), the device and the history
InitApp ==
  /\ osMounted \in BOOLEAN
  /\ osPath = "p1"
  /\ \E mode \in MountModes :
        /\ ~osMounted => mode = "rw"
        /\ ro = (mode = "ro")
        /\ permOk = (mode # "noperm")
  /\ dirOk = TRUE
  /\ call = NoCall
  /\ caller = "initial"
  /\ last_storage_state = FALSE
  /\ file_transfer = NoTransfer
  /\ check_count = 0
  /\ current_state = FALSE
  /\ exitStatus = "running"
  /\ mount_point = None
  /\ previous_files = <<>>
  /\ selected_files = <<>>
  /\ copied_files = <<>>
  /\ mountGen = IF osMounted THEN 1 ELSE 0
  /\ passGen = 0
  /\ syncCount = 0
  /\ everSampledMounted = FALSE
  /\ lastSample = FALSE
  /\ syncedOnPoll = FALSE
  /\ reachedLoop = FALSE
  /\ heartbeat = FALSE
  /\ passLog = <<>>
  /\ destinations = <<>>
  /\ touched = {}
  /\ attempts = <<>>
  /\ oldManifest = <<>>
  /\ healthy = FALSE
  /\ saved = FALSE

\* an empty device, and no file of the host within reach
InitRest ==
  /\ InitApp
  /\ dev = << >>
  /\ devDirs = {}
  /\ hostFiles = {}

\* The whole program, started by main() (main.py:268-271), on a small
\* music library.  ConfigManager as it is in config_manager.py has no
\* get_music_source_directory (hasMusicApi = FALSE); the ConfigStore of the
\* specification has one (hasMusicApi = TRUE).
Init ==
  /\ hasMusicApi \in BOOLEAN
  /\ musicSource \in {"none", "missing", "dir"}
  /\ library \in {{}, {F1, F2}}
  /\ songCount = 1
  /\ musicSource # "dir" => library = {}
  /\ musicDir \in MusicDirs
  /\ podcasts \in {0, 1}
  /\ ~hasMusicApi => (musicSource = "none" /\ musicDir = "" /\ podcasts = 0)
  /\ free = MaxFree
  /\ manifest = NoManifest
  /\ pc = "run_start"
  /\ InitRest
  /\ DetIdle

\* A harness that calls sync_episodes() on an app whose configuration has
\* the music getters, with a device of any kind.
PassInit ==
  /\ hasMusicApi = TRUE
  /\ musicSource \in {"none", "missing", "dir"}
  /\ library \in Libraries
  /\ songCount \in {1, 2}
  /\ musicSource # "dir" => (library = {} /\ songCount = 1)
  /\ musicDir \in MusicDirs
  /\ podcasts \in {0, 1}
  /\ free \in {1, MaxFree}
  /\ manifest \in {NoManifest, CorruptManifest}
  /\ pc = "idle"
  /\ InitRest
  /\ DetIdle


(***************************************************************************)
(* The environment: the user plugs and unplugs the device, and interrupts  *)
(* the process.                                                            *)
(***************************************************************************)
Mount ==
  /\ pc # "exited"
  /\ ~osMounted
  /\ mountGen < MaxMounts
  /\ osMounted' = TRUE
  /\ osPath' \in Paths
  /\ \E mode \in MountModes :
        /\ ro' = (mode = "ro")
        /\ permOk' = (mode # "noperm")
  /\ mountGen' = mountGen + 1
  /\ UNCHANGED dirOk
  /\ UNCHANGED <<cfgVars, hostVars, detVars, apiVars, devVars, appVars,
                 passVars, histVars, pc, caller, exitStatus, passGen,
                 syncCount>>

Unmount ==
  /\ pc # "exited"
  /\ osMounted
  /\ osMounted' = FALSE
  /\ UNCHANGED <<osPath, ro, permOk, dirOk>>
  /\ UNCHANGED <<cfgVars, hostVars, detVars, apiVars, devVars, appVars,
                 passVars, histVars, pc, caller, exitStatus, mountGen,
                 passGen, syncCount>>


\* Ctrl+C.  main.py:239-265: only the poll loop is inside the try block
\* that turns KeyboardInterrupt into sys.exit(0)
Interrupt ==
  /\ pc # "exited"
  /\ pc' = "exited"
  /\ exitStatus' = IF reachedLoop THEN "exit0" ELSE "interrupted"
  /\ UNCHANGED <<cfgVars, hostVars, detVars, apiVars, osVars, devVars,
                 appVars, passVars, histVars, caller, mountGen, passGen,
                 syncCount>>

(***************************************************************************)
(* SyncNSwimApp.run                                                        *)
(***************************************************************************)
\* an exception that nothing catches ends the process with a traceback
Raise ==
  /\ pc' = "exited"
  /\ exitStatus' = "error"

\* the call self.sync_episodes() made by the given caller
CallSync(c) ==
  /\ pc' = "se_resolve"
  /\ caller' = c
  /\ syncCount' = syncCount + 1

\* a startup that syncs whatever the sample says
InitialSyncAlways(initial_state) == TRUE

\* main.py:232   if initial_state:
InitialSyncNeeded(initial_state) == initial_state

\* a loop that syncs on every poll that finds the device
TransitionEveryPoll(current, last) == current

\* a loop with the comparison inverted
TransitionInverted(current, last) == current = last

\* main.py:246   if current_state != self.last_storage_state:
TransitionDetected(current, last) == current # last

\* an unmount that leaves the FileTransfer where it is
StoreKept(ft) == ft

\* main.py:253   self.file_transfer = None
StoreReleased(ft) == NoTransfer

\* a status line on every twelfth poll without transition
HeartbeatWhileMounted(count, current) == count = 0

\* main.py:257-260   elif check_count % 12 == 0: if not current_state:
\* (count is check_count modulo 12)
HeartbeatDue(count, current) == count = 0 /\ ~current

\* main.py:203-226: the banner; line 215 calls
\* self.config_manager.get_music_source_directory()
RunStart ==
  /\ pc = "run_start"
  /\ IF hasMusicApi
     THEN pc' = "initial" /\ UNCHANGED exitStatus
     ELSE Raise                         \* AttributeError
  /\ UNCHANGED <<cfgVars, hostVars, detVars, apiVars, osVars, devVars,
                 appVars, passVars, histVars, caller, mountGen, passGen,
                 syncCount>>

\* main.py:228-236
InitialSample ==
  /\ pc = "initial"
  /\ LET initial_state == is_device_mounted
     IN /\ last_storage_state' = initial_state
        /\ everSampledMounted' = (everSampledMounted \/ initial_state)
        /\ lastSample' = initial_state
        /\ IF InitialSyncNeeded(initial_state)
           THEN CallSync("initial") /\ UNCHANGED reachedLoop
           ELSE /\ pc' = "poll"
                /\ reachedLoop' = TRUE
                /\ UNCHANGED <<caller, syncCount>>
  /\ UNCHANGED <<cfgVars, hostVars, detVars, apiVars, osVars, devVars,
                 passVars, file_transfer, check_count, current_state,
                 exitStatus, mountGen, passGen, syncedOnPoll, heartbeat,
                 passLog, destinations, touched, attempts, oldManifest,
                 healthy, saved>>

\* main.py:242-262: one iteration of the loop, with its sleep unless the
\* iteration calls sync_episodes
Poll ==
  /\ pc = "poll"
  /\ LET cur == is_device_mounted
         count == (check_count + 1) % HeartbeatEvery
     IN /\ check_count' = count
        /\ current_state' = cur
        /\ everSampledMounted' = (everSampledMounted \/ cur)
        /\ lastSample' = cur
        /\ syncedOnPoll' = (TransitionDetected(cur, last_storage_state) /\ cur)
        /\ IF TransitionDetected(cur, last_storage_state)
           THEN /\ heartbeat' = FALSE
                /\ IF cur
                   THEN /\ CallSync("loop")
                        /\ UNCHANGED <<file_transfer, last_storage_state>>
                   ELSE /\ file_transfer' = StoreReleased(file_transfer)
                        /\ last_storage_state' = cur
                        /\ pc' = "poll"
                        /\ UNCHANGED <<caller, syncCount>>
           ELSE /\ heartbeat' = HeartbeatDue(count, cur)
                /\ pc' = "poll"
                /\ UNCHANGED <<file_transfer, last_storage_state, caller,
                               syncCount>>
  /\ UNCHANGED <<cfgVars, hostVars, detVars, apiVars, osVars, devVars,
                 passVars, exitStatus, mountGen, passGen, reachedLoop,
                 passLog, destinations, touched, attempts, oldManifest,
                 healthy, saved>>

\* the locals and the history of a sync pass, when it has returned
PassOver ==
  /\ mount_point' = None
  /\ previous_files' = <<>>
  /\ selected_files' = <<>>
  /\ copied_files' = <<>>
  /\ passLog' = <<>>
  /\ destinations' = <<>>
  /\ touched' = {}
  /\ attempts' = <<>>
  /\ oldManifest' = <<>>
  /\ healthy' = FALSE
  /\ saved' = FALSE

\* sync_episodes returns to run(): main.py:236, or main.py:256 and 262
SyncReturn ==
  /\ pc = "se_return"
  /\ caller \in {"initial", "loop"}
  /\ IF caller = "initial"
     THEN /\ reachedLoop' = TRUE
          /\ UNCHANGED last_storage_state
     ELSE /\ last_storage_state' = current_state
          /\ UNCHANGED reachedLoop
  /\ pc' = "poll"
  /\ PassOver
  /\ UNCHANGED <<cfgVars, hostVars, detVars, apiVars, osVars, devVars,
                 file_transfer, check_count, current_state, caller,
                 exitStatus, mountGen, passGen, syncCount, everSampledMounted,
                 lastSample, syncedOnPoll, heartbeat>>

(***************************************************************************)
(* A harness that calls sync_episodes() directly, as a test would.         *)
(***************************************************************************)
HarnessMount == pc = "idle" /\ Mount

HarnessUnmount == pc = "idle" /\ Unmount

HarnessCall ==
  /\ pc = "idle"
  /\ syncCount < MaxPasses
  /\ CallSync("harness")
  /\ UNCHANGED <<cfgVars, hostVars, detVars, apiVars, osVars, devVars,
                 appVars, passVars, histVars, exitStatus, mountGen, passGen>>

HarnessReturn ==
  /\ pc = "se_return"
  /\ caller = "harness"
  /\ pc' = "idle"
  /\ PassOver
  /\ UNCHANGED <<cfgVars, hostVars, detVars, apiVars, osVars, devVars,
                 appVars, caller, exitStatus, mountGen, passGen, syncCount,
                 monVars>>


(***************************************************************************)
(* SyncNSwimApp.sync_episodes                                              *)
(***************************************************************************)
\* main.py:37-67: resolve the mount path again and bind the FileTransfer
SeResolve ==
  /\ pc = "se_resolve"
  /\ passGen' = mountGen
  /\ LET mp == find_device_mount_point
     IN IF mp = None
        THEN /\ pc' = "se_return"
             /\ UNCHANGED <<mount_point, file_transfer, healthy>>
        ELSE /\ pc' = "se_music"
             /\ mount_point' = mp
             /\ file_transfer' =
                   FileTransfer(mp, get_device_music_directory)
             /\ healthy' = CanWrite(mp)
  /\ UNCHANGED <<cfgVars, hostVars, detVars, apiVars, osVars, devVars,
                 last_storage_state, check_count, current_state,
                 previous_files, selected_files, copied_files, caller,
                 exitStatus, mountGen, syncCount, monVars, passLog,
                 destinations, touched, attempts, oldManifest, saved>>

\* main.py:69-75: music mode when a music source directory is configured
SeMusic ==
  /\ pc = "se_music"
  /\ IF hasMusicApi
     THEN /\ pc' = IF get_music_source_directory # "none"
                    THEN "rm_begin" ELSE "se_cleanup"
          /\ UNCHANGED exitStatus
     ELSE Raise                         \* AttributeError, main.py:70
  /\ UNCHANGED <<cfgVars, hostVars, detVars, apiVars, osVars, devVars,
                 appVars, passVars, histVars, caller, mountGen, passGen,
                 syncCount>>

\* main.py:76-78: self.config_manager.get_cleanup_days() and
\* self.file_transfer.cleanup_old_files(...): ConfigManager
\* (config_manager.py:10-143) and FileTransfer (file_transfer.py:11-298)
\* define neither, so the call raises AttributeError
SeCleanup ==
  /\ pc = "se_cleanup"
  /\ Raise
  /\ UNCHANGED <<cfgVars, hostVars, detVars, apiVars, osVars, devVars,
                 appVars, passVars, histVars, caller, mountGen, passGen,
                 syncCount>>

(***************************************************************************)
(* SyncNSwimApp.sync_random_music                                          *)
(***************************************************************************)
\* a pass that deletes the old batch after copying the new one
MusicPhasesDeleteLate ==
  <<"rm_load", "rm_select", "rm_copy", "rm_delete", "rm_save">>

\* main.py:153-196: the order of the steps of a music pass
MusicPhases == <<"rm_load", "rm_delete", "rm_select", "rm_copy", "rm_save">>

\* where control goes when phase p is done
After(p) ==
  LET i == CHOOSE k \in 1..Len(MusicPhases) : MusicPhases[k] = p
  IN IF i = Len(MusicPhases) THEN "rm_end" ELSE MusicPhases[i + 1]

\* main.py:161   file_path = os.path.join(mount_point, filename)
\* (the directory of the device in which a manifest entry is deleted)
DeleteDir(ft) == ""

\* a file of the host that is not on the device: "/" for the root
\* directory of the host, ".." for the directory that holds the mount point
NoHostFile == [dir |-> "", name |-> <<>>]
updir == <<".", ".", "/">>

\* main.py:161   file_path = os.path.join(mount_point, filename)
\* where the result is outside the mount: an absolute filename is the
\* result whatever mount_point is, and a leading "../" names the directory
\* above mount_point
HostFileOf(filename) ==
  IF StartsWith(filename, slash)
  THEN [dir |-> "/", name |-> SubSeq(filename, 2, Len(filename))]
  ELSE IF StartsWith(filename, updir)
  THEN [dir |-> "..", name |-> SubSeq(filename, 4, Len(filename))]
  ELSE NoHostFile

\* main.py:187   copied_files.append(source_file)
CopiedEntry(source_file, destination) == source_file

\* main.py:186: every result taken as a success
SucceededAlways(destination) == TRUE

\* main.py:186   if destination:
Succeeded(destination) == destination # NoName

\* main.py:195   if copied_files:
SaveNeeded(copied) == copied # <<>>

\* main.py:139-151
RmBegin ==
  /\ pc = "rm_begin"
  /\ pc' = IF get_music_source_directory \in {"none", "missing"}
           THEN "rm_end" ELSE MusicPhases[1]
  /\ UNCHANGED <<cfgVars, hostVars, detVars, apiVars, osVars, devVars,
                 appVars, passVars, histVars, caller, exitStatus, mountGen,
                 passGen, syncCount>>

\* main.py:153-154
RmLoad ==
  /\ pc = "rm_load"
  /\ previous_files' = load_selected_files_list(mount_point)
  /\ oldManifest' = load_selected_files_list(mount_point)
  /\ healthy' = (healthy /\ CanWrite(mount_point))
  /\ pc' = After("rm_load")
  /\ UNCHANGED <<cfgVars, hostVars, detVars, apiVars, osVars, devVars,
                 appVars, mount_point, selected_files, copied_files, caller,
                 exitStatus, mountGen, passGen, syncCount, monVars, passLog,
                 destinations, touched, attempts, saved>>

\* main.py:156-169: one iteration of the deletion loop, or its end
RmDelete ==
  /\ pc = "rm_delete"
  /\ IF previous_files = <<>>
     THEN /\ pc' = After("rm_delete")
          /\ UNCHANGED <<dev, free, hostFiles, previous_files, passLog,
                         healthy>>
     ELSE LET filename == Head(previous_files)
              outside == HostFileOf(filename)
              file_path == <<DeleteDir(file_transfer), filename>>
          IN /\ previous_files' = Tail(previous_files)
             /\ healthy' = (healthy /\ CanWrite(mount_point))
             /\ pc' = pc
             /\ IF outside # NoHostFile
                THEN \* the path leaves the mount; the one through ".."
                     \* exists while the mount point does
                     /\ IF /\ outside \in hostFiles
                           /\ outside.dir = "/" \/ DevAt(mount_point)
                        THEN /\ hostFiles' = hostFiles \ {outside}
                             /\ passLog' = Append(passLog, "del")
                        ELSE UNCHANGED <<hostFiles, passLog>>
                     /\ UNCHANGED <<dev, free>>
                ELSE /\ UNCHANGED hostFiles
                     /\ IF DevAt(mount_point) /\ file_path \in DOMAIN dev
                        THEN /\ passLog' = Append(passLog, "del")
                             /\ IF CanWrite(mount_point)
                                THEN /\ dev' = Without(dev, file_path)
                                     /\ free' = free + dev[file_path].size
                                ELSE UNCHANGED <<dev, free>>  \* raises
                        ELSE UNCHANGED <<dev, free, passLog>>
  /\ UNCHANGED <<cfgVars, detVars, apiVars, osVars, devDirs,
                 manifest, appVars, mount_point, selected_files, copied_files,
                 caller, exitStatus, mountGen, passGen, syncCount, monVars,
                 destinations, touched, attempts, oldManifest, saved>>

\* main.py:171-176
RmSelect ==
  /\ pc = "rm_select"
  /\ \E sel \in select_random_songs(get_random_songs_count) :
        /\ selected_files' = sel
        /\ pc' = IF sel = <<>> THEN "rm_end" ELSE After("rm_select")
  /\ UNCHANGED <<cfgVars, hostVars, detVars, apiVars, osVars, devVars,
                 appVars, mount_point, previous_files, copied_files, histVars,
                 caller, exitStatus, mountGen, passGen, syncCount>>

\* main.py:178-192: one iteration of the copy loop, or its end
RmCopy ==
  /\ pc = "rm_copy"
  /\ IF selected_files = <<>>
     THEN /\ pc' = After("rm_copy")
          /\ UNCHANGED <<dev, devDirs, free, selected_files, copied_files,
                         passLog, destinations, touched, attempts, healthy>>
     ELSE LET source_file == Head(selected_files)
              filename == basename(source_file)
          IN \E srcExists \in BOOLEAN, io \in IoOutcomes(SizeOf(source_file)) :
               LET r == copy_file(file_transfer, source_file, srcExists,
                                  filename, io)
               IN /\ dev' = r.dev
                  /\ devDirs' = r.dirs
                  /\ free' = r.free
                  /\ selected_files' = Tail(selected_files)
                  /\ passLog' = Append(passLog, "copy")
                  /\ touched' = IF r.ret # NoName \/ r.dev # dev
                                THEN touched \cup {r.name} ELSE touched
                  /\ healthy' = (healthy /\ CanWrite(mount_point))
                  /\ pc' = pc
                  /\ attempts' = Append(attempts,
                                         [source |-> source_file,
                                          ret |-> r.ret,
                                          raised |-> r.raised])
                  /\ IF ~r.raised /\ Succeeded(r.ret)
                     THEN /\ copied_files' =
                               Append(copied_files,
                                      CopiedEntry(source_file, r.ret))
                          /\ destinations' = Append(destinations, r.ret)
                     ELSE UNCHANGED <<copied_files, destinations>>
  /\ UNCHANGED <<cfgVars, hostVars, detVars, apiVars, osVars, manifest,
                 appVars, mount_point, previous_files, caller, exitStatus,
                 mountGen, passGen, syncCount, monVars, oldManifest, saved>>

\* main.py:194-199
RmSave ==
  /\ pc = "rm_save"
  /\ IF SaveNeeded(copied_files)
     THEN /\ manifest' = save_selected_files_list(mount_point, copied_files)
          /\ saved' = CanWrite(mount_point)
          /\ passLog' = Append(passLog, "save")
     ELSE UNCHANGED <<manifest, saved, passLog>>
  /\ healthy' = (healthy /\ CanWrite(mount_point))
  /\ pc' = After("rm_save")
  /\ UNCHANGED <<cfgVars, hostVars, detVars, apiVars, osVars, dev, devDirs,
                 free, appVars, passVars, caller, exitStatus, mountGen,
                 passGen, syncCount, monVars, destinations, touched, attempts,
                 oldManifest>>

\* sync_random_music returns; main.py:75 skips the cleanup, main.py:85
RmEnd ==
  /\ pc = "rm_end"
  /\ pc' = "ft_begin"
  /\ UNCHANGED <<cfgVars, hostVars, detVars, apiVars, osVars, devVars,
                 appVars, passVars, histVars, caller, exitStatus, mountGen,
                 passGen, syncCount>>

(***************************************************************************)
(* SyncNSwimApp.fetch_and_transfer_episodes                                *)
(***************************************************************************)
\* main.py:89-101
FtBegin ==
  /\ pc = "ft_begin"
  /\ pc' = IF get_enabled_podcasts = 0 THEN "se_return" ELSE "ft_podcast"
  /\ UNCHANGED <<cfgVars, hostVars, detVars, apiVars, osVars, devVars,
                 appVars, passVars, histVars, caller, exitStatus, mountGen,
                 passGen, syncCount>>

\* main.py:103-135: the enabled podcast: download, then copy to the device
FtPodcast ==
  /\ pc = "ft_podcast"
  /\ \E downloaded \in BOOLEAN, io \in IoOutcomes(SizeOf(EP)) :
        LET r == copy_file(file_transfer, EP, TRUE, NoName, io)
        IN IF downloaded
           THEN dev' = r.dev /\ devDirs' = r.dirs /\ free' = r.free
           ELSE UNCHANGED <<dev, devDirs, free>>
  /\ pc' = "se_return"
  /\ UNCHANGED <<cfgVars, hostVars, detVars, apiVars, osVars, manifest,
                 appVars, passVars, histVars, caller, exitStatus, mountGen,
                 passGen, syncCount>>

(***************************************************************************)
(* A test that calls the methods of one FileTransfer directly, on a device *)
(* of any kind that may hold files already.                                *)
(***************************************************************************)
ApiSources == {F1, F2}                  \* sources the test copies
ApiNames == {NoName, <<"a">>}           \* destination_filename arguments
ApiBatches == {<<F1, F2>>, <<F2, F1>>}  \* arguments of copy_files

\* what the device may hold in the music directory before the test: nothing,
\* a complete copy of F1, or a file of another size under the same name
DevicesBefore(music_directory) ==
  { << >>,
    [x \in {<<music_directory, <<"a">>>>} |-> ContentOf(F1)],
    [x \in {<<music_directory, <<"a">>>>} |-> [size |-> 2, data |-> UserData]] }

FtInit ==
  /\ hasMusicApi = TRUE
  /\ musicSource = "none"
  /\ library = {}
  /\ songCount = 1
  /\ musicDir \in MusicDirs
  /\ podcasts = 0
  /\ osMounted \in BOOLEAN
  /\ osPath = "p1"
  /\ \E mode \in MountModes :
        /\ ~osMounted => mode = "rw"
        /\ ro = (mode = "ro")
        /\ permOk = (mode # "noperm")
  /\ dirOk \in BOOLEAN
  /\ musicDir = "" => dirOk
  /\ dev \in DevicesBefore(musicDir)
  /\ devDirs \in {{}, {"MUSIC"}}
  /\ musicDir = "" => devDirs = {}
  /\ (musicDir = "MUSIC" /\ dev # << >>) => devDirs = {"MUSIC"}
  /\ free \in 0..MaxFree
  /\ manifest = NoManifest
  /\ hostFiles = {}
  /\ pc = "api"
  /\ caller = "test"
  /\ last_storage_state = FALSE
  /\ file_transfer = FileTransfer("p1", musicDir)
  /\ check_count = 0
  /\ current_state = FALSE
  /\ exitStatus = "running"
  /\ mount_point = None
  /\ previous_files = <<>>
  /\ selected_files = <<>>
  /\ copied_files = <<>>
  /\ mountGen = IF osMounted THEN 1 ELSE 0
  /\ passGen = 0
  /\ syncCount = 0
  /\ everSampledMounted = FALSE
  /\ lastSample = FALSE
  /\ syncedOnPoll = FALSE
  /\ reachedLoop = FALSE
  /\ heartbeat = FALSE
  /\ passLog = <<>>
  /\ destinations = <<>>
  /\ touched = {}
  /\ attempts = <<>>
  /\ oldManifest = <<>>
  /\ healthy = FALSE
  /\ saved = FALSE
  /\ call = NoCall
  /\ DetIdle

\* the record of a call whose arguments and device are those of now
CallNow(op) ==
  [NoCall EXCEPT !.op = op, !.ft = file_transfer, !.before = dev,
     !.mount_info = _get_mount_info(file_transfer.device_mount_point),
     !.free_space = get_device_free_space(file_transfer),
     !.gen = mountGen, !.n = call.n + 1]

\* the device is plugged or unplugged between two items of a batch
ApiMount == pc = "cf_loop" /\ Mount

ApiUnmount == pc = "cf_loop" /\ Unmount

\* file_transfer.py:26-103   file_transfer.ensure_music_directory()
ApiEnsure ==
  /\ pc = "api"
  /\ call.n < MaxCalls
  /\ call' = [CallNow("ensure_music_directory") EXCEPT
                !.ok = ensure_music_directory(file_transfer),
                !.writes = EnsureWrites(file_transfer)]
  /\ devDirs' = DirsAfterEnsure(file_transfer)
  /\ UNCHANGED <<cfgVars, hostVars, detVars, osVars, dev, free, manifest,
                 appVars, passVars, histVars, pc, caller, exitStatus,
                 mountGen, passGen, syncCount>>

\* file_transfer.py:179-234   file_transfer.copy_file(source_file, name)
ApiCopyFile ==
  /\ pc = "api"
  /\ call.n < MaxCalls
  /\ \E source_file \in ApiSources, srcExists \in BOOLEAN,
        destination_filename \in ApiNames :
     \E io \in IoOutcomes(SizeOf(source_file)) :
       LET r == copy_file(file_transfer, source_file, srcExists,
                          destination_filename, io)
       IN /\ dev' = r.dev
          /\ devDirs' = r.dirs
          /\ free' = r.free
          /\ call' = [CallNow("copy_file") EXCEPT
                        !.source = source_file,
                        !.srcExists = srcExists,
                        !.destination_filename = destination_filename,
                        !.io = io,
                        !.ret = r.ret,
                        !.raised = r.raised,
                        !.ok = ensure_music_directory(file_transfer),
                        !.name = r.name,
                        !.writes = r.writes,
                        !.repeats = /\ call.op = "copy_file"
                                    /\ call.ret # NoName
                                    /\ call.source = source_file
                                    /\ call.destination_filename
                                         = destination_filename
                                    /\ srcExists
                                    /\ call.gen = mountGen
                                    /\ osMounted]
  /\ UNCHANGED <<cfgVars, hostVars, detVars, osVars, manifest, appVars,
                 passVars, histVars, pc, caller, exitStatus, mountGen,
                 passGen, syncCount>>

\* file_transfer.py:250   if result:
Kept(result) == result # NoName

\* file_transfer.py:246   file_transfer.copy_files(source_files) is called
ApiCopyFiles ==
  /\ pc = "api"
  /\ \E source_files \in ApiBatches :
        /\ call.n + Len(source_files) <= MaxCalls
        /\ selected_files' = source_files
        /\ call' = [CallNow("copy_files") EXCEPT
                      !.batch = source_files,
                      !.n = call.n + Len(source_files)]
  /\ copied_files' = <<>>
  /\ pc' = "cf_loop"
  /\ UNCHANGED <<cfgVars, hostVars, detVars, osVars, devVars, appVars,
                 mount_point, previous_files, histVars, caller, exitStatus,
                 mountGen, passGen, syncCount>>

\* file_transfer.py:248-253: one iteration of the loop of copy_files, or
\* its return; an exception of copy_file leaves copy_files at once
CfStep ==
  /\ pc = "cf_loop"
  /\ IF selected_files = <<>>
     THEN /\ pc' = "api"
          /\ call' = [call EXCEPT !.returned = TRUE]
          /\ UNCHANGED <<dev, devDirs, free, selected_files, copied_files>>
     ELSE LET source_file == Head(selected_files)
          IN \E srcExists \in BOOLEAN,
                io \in IoOutcomes(SizeOf(source_file)) :
               LET r == copy_file(file_transfer, source_file, srcExists,
                                  NoName, io)
               IN /\ dev' = r.dev
                  /\ devDirs' = r.dirs
                  /\ free' = r.free
                  /\ call' = [call EXCEPT
                                !.attempted = Append(@, source_file),
                                !.outcomes = Append(@, r.ret),
                                !.raised = r.raised]
                  /\ IF r.raised
                     THEN /\ pc' = "api"
                          /\ selected_files' = <<>>
                          /\ copied_files' = <<>>
                     ELSE /\ pc' = pc
                          /\ selected_files' = Tail(selected_files)
                          /\ copied_files' =
                               IF Kept(r.ret)
                               THEN Append(copied_files, r.ret)
                               ELSE copied_files
  /\ UNCHANGED <<cfgVars, hostVars, detVars, osVars, manifest, appVars,
                 mount_point, previous_files, histVars, caller, exitStatus,
                 mountGen, passGen, syncCount>>

(***************************************************************************)
(* A test that calls _sanitize_filename on names of any kind.              *)
(***************************************************************************)
SanAlphabet == {"a", "b", " ", "-", "_", ".", "#", "/", "*"}
MaxLen == 3

\* the name made of n characters c
Rep(c, n) == [i \in 1..n |-> c]

\* "Ep #12: Q&A!.mp3"
ExampleName ==
  <<"E", "p", " ", "#", "1", "2", ":", " ", "Q", "&", "A", "!", ".",
    "m", "p", "3">>

\* names of more than MaxNameLen characters: a stem, a dot, an extension
LongStems == {0, 1, 100, 255}
LongExts == {0, 3, 199, 200, 250}
LongNames ==
  {Rep("a", n) \o <<".">> \o Rep("b", e) : n \in LongStems, e \in LongExts}
    \cup {Rep("a", 260), Rep("#", 201), Rep(".", 201)}

\* the names of at most MaxLen characters, the example and the long names
SanNames ==
  UNION {[1..n -> SanAlphabet] : n \in 0..MaxLen}
    \cup {ExampleName} \cup LongNames

SanInit ==
  /\ hasMusicApi = TRUE
  /\ musicSource = "none"
  /\ library = {}
  /\ songCount = 1
  /\ musicDir = "MUSIC"
  /\ podcasts = 0
  /\ free = MaxFree
  /\ manifest = NoManifest
  /\ pc = "san"
  /\ InitRest
  /\ DetIdle
  /\ ~osMounted

\* file_transfer.py:255-274   file_transfer._sanitize_filename(filename)
ApiSanitize ==
  /\ pc = "san"
  /\ \E filename \in SanNames :
        call' = [NoCall EXCEPT !.op = "_sanitize_filename",
                               !.destination_filename = filename,
                               !.name = _sanitize_filename(filename)]
  /\ pc' = "san_done"
  /\ UNCHANGED <<cfgVars, hostVars, detVars, osVars, devVars, appVars,
                 passVars, histVars, caller, exitStatus, mountGen, passGen,
                 syncCount>>

(***************************************************************************)
(* A test that calls the methods of one MusicSelector directly: it selects *)
(* songs, and saves and loads the manifest of a device that the user may   *)
(* unplug and plug in again.                                               *)
(***************************************************************************)
\* the sample counts of the selectors tested
SelCounts == {0 - 1, 0, 1, 2, 3, 4}

\* the lists of paths given to save_selected_files_list
SelLists == UNION {[1..n -> {F1, F2, F3}] : n \in 0..2}

SelInit ==
  /\ hasMusicApi = TRUE
  /\ musicSource \in {"missing", "dir"}
  /\ library \in Libraries
  /\ musicSource # "dir" => library = {}
  /\ songCount \in SelCounts
  /\ musicDir = ""
  /\ podcasts = 0
  /\ free = MaxFree
  /\ manifest \in {NoManifest, CorruptManifest}
  /\ pc = "sel"
  /\ InitRest
  /\ DetIdle

\* the user plugs the device in
SelMount ==
  /\ pc = "sel"
  /\ ~osMounted
  /\ osMounted' = TRUE
  /\ \E mode \in MountModes :
        /\ ro' = (mode = "ro")
        /\ permOk' = (mode # "noperm")
  /\ UNCHANGED <<cfgVars, hostVars, detVars, apiVars, osPath, dirOk, devVars,
                 appVars, passVars, histVars, pc, caller, exitStatus,
                 mountGen, passGen, syncCount>>

\* the user unplugs the device
SelUnmount ==
  /\ pc = "sel"
  /\ osMounted
  /\ osMounted' = FALSE
  /\ UNCHANGED <<cfgVars, hostVars, detVars, apiVars, osPath, ro, permOk,
                 dirOk, devVars, appVars, passVars, histVars, pc, caller,
                 exitStatus, mountGen, passGen, syncCount>>

\* music_selector.py:54-73   selected_files = selector.select_random_songs()
ApiSelect ==
  /\ pc = "sel"
  /\ IF select_random_songs_raises(get_random_songs_count)
     THEN /\ call' = [call EXCEPT !.op = "select_random_songs",
                                  !.raised = TRUE]
          /\ UNCHANGED selected_files
     ELSE \E sel \in select_random_songs(get_random_songs_count) :
            /\ call' = [call EXCEPT !.op = "select_random_songs",
                                    !.raised = FALSE]
            /\ selected_files' = sel
  /\ pc' = "sel_done"
  /\ UNCHANGED <<cfgVars, hostVars, detVars, osVars, devVars, appVars,
                 mount_point, previous_files, copied_files, histVars, caller,
                 exitStatus, mountGen, passGen, syncCount>>

\* music_selector.py:75-103   selector.save_selected_files_list("p1", paths)
\* call.batch keeps the list of the latest save that returned True
ApiSaveList ==
  /\ pc = "sel"
  /\ \E file_paths \in SelLists :
        /\ manifest' = save_selected_files_list("p1", file_paths)
        /\ call' = IF CanWrite("p1")
                   THEN [call EXCEPT !.op = "save_selected_files_list",
                                     !.raised = FALSE, !.ok = TRUE,
                                     !.batch = file_paths]
                   ELSE [call EXCEPT !.op = "save_selected_files_list",
                                     !.raised = FALSE]
  /\ pc' = "sel_done"
  /\ UNCHANGED <<cfgVars, hostVars, detVars, osVars, dev, devDirs, free,
                 appVars, passVars, histVars, caller, exitStatus, mountGen,
                 passGen, syncCount>>

\* music_selector.py:105-127
\*   previous_files = selector.load_selected_files_list("p1")
ApiLoadList ==
  /\ pc = "sel"
  /\ previous_files' = load_selected_files_list("p1")
  /\ call' = [call EXCEPT !.op = "load_selected_files_list",
                          !.raised = FALSE]
  /\ pc' = "sel_done"
  /\ UNCHANGED <<cfgVars, hostVars, detVars, osVars, devVars, appVars,
                 mount_point, selected_files, copied_files, histVars, caller,
                 exitStatus, mountGen, passGen, syncCount>>

\* the test goes on to its next call
SelReturn ==
  /\ pc = "sel_done"
  /\ pc' = "sel"
  /\ UNCHANGED <<cfgVars, hostVars, detVars, apiVars, osVars, devVars,
                 appVars, passVars, histVars, caller, exitStatus, mountGen,
                 passGen, syncCount>>

(***************************************************************************)
(* A test that calls find_device_mount_point on a host of any kind, one    *)
(* detection method at a step.                                             *)
(***************************************************************************)
DetInit ==
  /\ hasMusicApi = TRUE
  /\ musicSource = "none"
  /\ library = {}
  /\ songCount = 1
  /\ musicDir = ""
  /\ podcasts = 0
  /\ free = MaxFree
  /\ manifest = NoManifest
  /\ pc = "det_m1"
  /\ InitRest
  /\ ~osMounted
  /\ mountTable \in Tables(MaxDevs)
  /\ tools \in ToolStates
  /\ found = NoPath
  /\ tried = <<>>
  /\ clock = 0
  /\ wait = NoWait

\* after method k: its exception leaves find_device_mount_point, or its hit
\* is returned, or the next method is tried
AfterMethod(k, r) ==
  IF r.raised THEN "det_raised"
  ELSE IF r.hit # NoPath \/ k = 4 THEN "det_done"
  ELSE Stage[k + 1]

\* storage_detector.py:77-119: method 1
DetMethod1 ==
  /\ pc = Stage[1]
  /\ found' = MethodResult(1, mountTable, tools).hit
  /\ tried' = Append(tried, 1)
  /\ pc' = AfterMethod(1, MethodResult(1, mountTable, tools))
  /\ UNCHANGED <<cfgVars, hostVars, mountTable, tools, clock, wait, apiVars,
                 osVars, devVars, appVars, passVars, histVars, caller,
                 exitStatus, mountGen, passGen, syncCount>>

\* storage_detector.py:121-162: method 2
DetMethod2 ==
  /\ pc = Stage[2]
  /\ found' = MethodResult(2, mountTable, tools).hit
  /\ tried' = Append(tried, 2)
  /\ pc' = AfterMethod(2, MethodResult(2, mountTable, tools))
  /\ UNCHANGED <<cfgVars, hostVars, mountTable, tools, clock, wait, apiVars,
                 osVars, devVars, appVars, passVars, histVars, caller,
                 exitStatus, mountGen, passGen, syncCount>>

\* storage_detector.py:164-192: method 3
DetMethod3 ==
  /\ pc = Stage[3]
  /\ found' = MethodResult(3, mountTable, tools).hit
  /\ tried' = Append(tried, 3)
  /\ pc' = AfterMethod(3, MethodResult(3, mountTable, tools))
  /\ UNCHANGED <<cfgVars, hostVars, mountTable, tools, clock, wait, apiVars,
                 osVars, devVars, appVars, passVars, histVars, caller,
                 exitStatus, mountGen, passGen, syncCount>>

\* storage_detector.py:194-231: method 4, and the return of None
DetMethod4 ==
  /\ pc = Stage[4]
  /\ found' = MethodResult(4, mountTable, tools).hit
  /\ tried' = Append(tried, 4)
  /\ pc' = AfterMethod(4, MethodResult(4, mountTable, tools))
  /\ UNCHANGED <<cfgVars, hostVars, mountTable, tools, clock, wait, apiVars,
                 osVars, devVars, appVars, passVars, histVars, caller,
                 exitStatus, mountGen, passGen, syncCount>>

(***************************************************************************)
(* A test that calls wait_for_device while the user plugs the device in    *)
(* and unplugs it; the clock counts ticks.                                 *)
(***************************************************************************)
\* a device that every method finds when it is mounted
Plugged ==
  <<[name |-> <<"s", "d", "b", "1">>, label |-> <<"S", "H">>,
     at |-> [base |-> media, item |-> <<"S", "H">>, sub |-> <<>>],
     fstype |-> vfat]>>

\* the hosts of the test: the device is unplugged, or plugged in
WaitHosts == {<<>>, Plugged}

\* storage_detector.py:333   mount_point = self.find_device_mount_point()
\* on each host of the test, where every command works
FoundOn ==
  [table \in WaitHosts |-> find_device_mount_point_on(table, ToolsOk)]

WaitInit ==
  /\ hasMusicApi = TRUE
  /\ musicSource = "none"
  /\ library = {}
  /\ songCount = 1
  /\ musicDir = ""
  /\ podcasts = 0
  /\ free = MaxFree
  /\ manifest = NoManifest
  /\ pc = "wait_loop"
  /\ InitRest
  /\ ~osMounted
  /\ mountTable \in WaitHosts
  /\ tools = ToolsOk
  /\ found = NoPath
  /\ tried = <<>>
  /\ clock = 0
  /\ \E timeout \in 0..MaxTimeout, check_interval \in 0..MaxInterval :
        wait = [NoWait EXCEPT !.timeout = timeout,
                              !.check_interval = check_interval]

\* the user plugs the device in, or unplugs it
WaitPlug ==
  /\ pc \in {"wait_loop", "wait_attempt", "wait_sleep"}
  /\ mountTable' = IF mountTable = <<>> THEN Plugged ELSE <<>>
  /\ UNCHANGED <<cfgVars, hostVars, tools, found, tried, clock, wait, apiVars,
                 osVars, devVars, appVars, passVars, histVars, pc, caller,
                 exitStatus, mountGen, passGen, syncCount>>

\* the attempt never counts as a success
AttemptNeverSucceeds(mp) == FALSE

\* storage_detector.py:334  if mount_point:
AttemptSucceeded(mp) == mp # NoPath

\* storage_detector.py:328, 343-345: the test of the while loop, and the
\* return of None when it fails
WaitTest ==
  /\ pc = "wait_loop"
  /\ IF clock - wait.start_time < wait.timeout
     THEN /\ pc' = "wait_attempt"
          /\ UNCHANGED wait
     ELSE /\ pc' = "wait_done"
          /\ wait' = [wait EXCEPT !.ret = NoPath, !.returned = TRUE,
                                  !.elapsed = clock - wait.start_time]
  /\ UNCHANGED <<cfgVars, hostVars, mountTable, tools, found, tried, clock,
                 apiVars, osVars, devVars, appVars, passVars, histVars,
                 caller, exitStatus, mountGen, passGen, syncCount>>

\* storage_detector.py:329-336: one attempt, which takes some time
WaitAttempt ==
  /\ pc = "wait_attempt"
  /\ LET mp == FoundOn[mountTable]
     IN /\ found' = mp
        /\ IF AttemptSucceeded(mp)
           THEN /\ pc' = "wait_done"
                /\ wait' = [wait EXCEPT
                              !.check_count = @ + 1,
                              !.results = Append(@, mp),
                              !.ret = mp, !.returned = TRUE,
                              !.elapsed = clock - wait.start_time]
           ELSE /\ pc' = "wait_sleep"
                /\ wait' = [wait EXCEPT
                              !.check_count = @ + 1,
                              !.results = Append(@, mp)]
  /\ \E took \in 1..MaxTook : clock' = clock + took
  /\ UNCHANGED <<cfgVars, hostVars, mountTable, tools, tried, apiVars, osVars,
                 devVars, appVars, passVars, histVars, caller, exitStatus,
                 mountGen, passGen, syncCount>>

\* storage_detector.py:338-341  time.sleep(check_interval)
WaitSleep ==
  /\ pc = "wait_sleep"
  /\ clock' = clock + wait.check_interval
  /\ wait' = [wait EXCEPT !.slept = @ + wait.check_interval,
                          !.sleeps = @ + 1]
  /\ pc' = "wait_loop"
  /\ UNCHANGED <<cfgVars, hostVars, mountTable, tools, found, tried, apiVars,
                 osVars, devVars, appVars, passVars, histVars, caller,
                 exitStatus, mountGen, passGen, syncCount>>

(***************************************************************************)
(* The specification.                                                      *)
(***************************************************************************)
Next ==
  \/ Mount
  \/ Unmount
  \/ Interrupt
  \/ RunStart
  \/ InitialSample
  \/ Poll
  \/ SyncReturn
  \/ SeResolve
  \/ SeMusic
  \/ SeCleanup
  \/ RmBegin
  \/ RmLoad
  \/ RmDelete
  \/ RmSelect
  \/ RmCopy
  \/ RmSave
  \/ RmEnd
  \/ FtBegin
  \/ FtPodcast

Spec == Init /\ [][Next]_vars

\* the steps of the process: its single thread always takes its next step
Prog ==
  \/ RunStart \/ InitialSample \/ Poll \/ SyncReturn
  \/ SeResolve \/ SeMusic \/ SeCleanup
  \/ RmBegin \/ RmLoad \/ RmDelete \/ RmSelect \/ RmCopy \/ RmSave \/ RmEnd
  \/ FtBegin \/ FtPodcast

FairSpec == Init /\ [][Next]_vars /\ WF_vars(Prog)

\* sync passes run by the harness
PassNext ==
  \/ HarnessMount
  \/ HarnessUnmount
  \/ HarnessCall
  \/ HarnessReturn
  \/ SeResolve
  \/ SeMusic
  \/ SeCleanup
  \/ RmBegin
  \/ RmLoad
  \/ RmDelete
  \/ RmSelect
  \/ RmCopy
  \/ RmSave
  \/ RmEnd
  \/ FtBegin
  \/ FtPodcast

PassSpec == PassInit /\ [][PassNext]_vars

\* calls of the FileTransfer API by a test
FtNext ==
  \/ ApiMount
  \/ ApiUnmount
  \/ ApiEnsure
  \/ ApiCopyFile
  \/ ApiCopyFiles
  \/ CfStep

FtSpec == FtInit /\ [][FtNext]_vars

\* calls of _sanitize_filename by a test
SanNext == ApiSanitize

SanSpec == SanInit /\ [][SanNext]_vars

\* calls of the MusicSelector API by a test
SelNext ==
  \/ SelMount
  \/ SelUnmount
  \/ ApiSelect
  \/ ApiSaveList
  \/ ApiLoadList
  \/ SelReturn

SelSpec == SelInit /\ [][SelNext]_vars

\* one call of find_device_mount_point by a test
DetNext ==
  \/ DetMethod1
  \/ DetMethod2
  \/ DetMethod3
  \/ DetMethod4

DetSpec == DetInit /\ [][DetNext]_vars

\* the steps of wait_for_device: its thread always takes its next step
WaitProg == WaitTest \/ WaitAttempt \/ WaitSleep

\* one call of wait_for_device by a test
WaitNext ==
  \/ WaitPlug
  \/ WaitTest
  \/ WaitAttempt
  \/ WaitSleep

WaitSpec == WaitInit /\ [][WaitNext]_vars /\ WF_vars(WaitProg)


(***************************************************************************)
(* Claims.                                                                 *)
(***************************************************************************)
\* the elements of a sequence
Range(q) == {q[i] : i \in 1..Len(q)}

\* sync_random_music has returned from a pass over an existing music
\* source directory, and the device was mounted read-write at every step
MusicPassDone == pc = "rm_end" /\ musicSource = "dir" /\ healthy

\* C1: when a music pass has run, no file that the manifest listed at the
\* start of the pass is left in the store's target subdirectory, unless the
\* pass copied it again; for every device_music_directory.
C1_OldBatchRemoved ==
  MusicPassDone =>
    \A f \in Range(oldManifest) :
      <<musicDir, f>> \in DOMAIN dev => f \in touched

\* C2: after a completed music pass every name in the manifest is a file of
\* the target subdirectory that this pass wrote.
C2_ManifestNamesCurrentBatch ==
  (MusicPassDone /\ manifest.kind = "list") =>
    \A f \in Range(manifest.files) :
      <<musicDir, f>> \in DOMAIN dev /\ f \in Range(destinations)

\* C3: the manifest saved in step 5 is exactly the names returned by the
\* successful copy calls of the pass, in copy order.
C3_ManifestIsDestinations ==
  (pc = "rm_end" /\ saved) => manifest = ListManifest(destinations)

\* C4: every music pass that starts ends by rewriting the manifest, with an
\* empty one when nothing was copied.
C4_ManifestAlwaysRewritten ==
  MusicPassDone =>
    /\ saved
    /\ destinations = <<>> => manifest = ListManifest(<<>>)

\* C5: within a music pass every deletion comes before the first copy, and
\* the manifest is written after the last copy.
C5_DeleteCopySaveOrder ==
  \A i, j \in 1..Len(passLog) :
    i < j => /\ ~(passLog[i] = "copy" /\ passLog[j] = "del")
             /\ ~(passLog[i] = "save" /\ passLog[j] \in {"copy", "del"})

\* a pass that deleted an old file, copied two and saved the manifest
C5_Witness ==
  /\ pc = "rm_end"
  /\ Len(passLog) >= 4
  /\ passLog[1] = "del"
  /\ passLog[Len(passLog)] = "save"
  /\ Len(destinations) = 2


\* the positions of the thread of control inside sync_episodes
PassPcs ==
  {"se_resolve", "se_music", "se_cleanup", "rm_begin", "rm_load",
   "rm_delete", "rm_select", "rm_copy", "rm_save", "rm_end", "ft_begin",
   "ft_podcast", "se_return"}

\* C6: as long as every sample of the mount state, at startup and in the
\* loop, said "not mounted", the monitor is in Unmounted and no sync pass
\* was invoked.
C6_NoSyncWhileAbsent ==
  ~everSampledMounted =>
    /\ last_storage_state = FALSE
    /\ syncCount = 0
    /\ pc \notin PassPcs

\* the loop has polled several times and never saw the device
C6_Witness ==
  /\ pc = "poll"
  /\ reachedLoop
  /\ check_count = 3
  /\ ~everSampledMounted

\* C7: an iteration of the loop invokes a sync pass exactly when its sample
\* says Mounted and the sample before it said Unmounted, and then it invokes
\* one pass; no other step of the loop invokes a pass.
C7_OneSyncPerTransition ==
  [][ IF check_count' # check_count
      THEN IF ~lastSample /\ lastSample'
           THEN syncCount' = syncCount + 1
           ELSE syncCount' = syncCount
      ELSE pc = "initial" \/ syncCount' = syncCount ]_vars

\* after a pass invoked by the loop, a later poll found the device still
\* mounted and invoked nothing
C7_Witness ==
  /\ pc = "poll"
  /\ caller = "loop"
  /\ syncCount = 1
  /\ lastSample
  /\ last_storage_state
  /\ ~syncedOnPoll

\* a mount event after which no sync pass has begun its work yet, on a
\* device that is still mounted
MountPending == osMounted /\ mountGen > passGen

\* C8: every mount event after which the device stays mounted is followed
\* by a sync pass invoked after it (unless the process ends).
C8_EveryMountEventSynced ==
  MountPending ~> (~MountPending \/ pc = "exited")

\* C8 as amended: a mount event that finds the monitor in its loop in state
\* Unmounted, on a device that stays mounted, is followed by a sync pass
\* invoked after it (unless the process is interrupted).
C8_ObservedMountSynced ==
  (MountPending /\ pc = "poll" /\ ~last_storage_state)
     ~> (~MountPending \/ pc = "exited")

\* the loop invokes a pass for the second mount event of the run
C8_Witness ==
  /\ pc = "se_music"
  /\ caller = "loop"
  /\ mountGen = 2
  /\ passGen = 2
  /\ syncCount = 2

\* C9: run() reaches the poll loop unless it is interrupted, and a sync
\* pass that runs before the loop is the one pass of a startup that
\* sampled Mounted.
C9_StartupReachesLoop ==
  /\ (pc = "exited" /\ ~reachedLoop) => exitStatus = "interrupted"
  /\ (pc \in PassPcs /\ ~reachedLoop) =>
        (last_storage_state /\ syncCount = 1 /\ caller = "initial")

\* C10: once run() is in its loop, only an interrupt ends the process.
C10_OnlyInterruptEndsLoop ==
  (pc = "exited" /\ reachedLoop) => exitStatus = "exit0"

\* C11: an interrupt received during a sync pass (the initial one or one
\* of the loop) or between two polls ends the process with exit code 0: a
\* process that had invoked a pass or entered its loop, and ended otherwise
\* than by an uncaught error, ended with exit code 0.
C11_InterruptExitsZero ==
  (pc = "exited" /\ exitStatus # "error" /\ (syncCount >= 1 \/ reachedLoop))
    => exitStatus = "exit0"

\* the path copy_file of the latest call writes to
CallPath == <<call.ft.music_directory, call.name>>

\* the file at path p is now what it was before the latest call
Untouched(p) ==
  IF p \in DOMAIN call.before
  THEN p \in DOMAIN dev /\ dev[p] = call.before[p]
  ELSE p \notin DOMAIN dev

\* C12: when copy_file returns None, the destination holds nothing or the
\* complete file that was there before the call: no partial file.
C12_FailedCopyLeavesNoPartial ==
  (call.op = "copy_file" /\ call.ret = NoName) => Untouched(CallPath)

\* C13: on a mount whose record says read-only, ensure_music_directory
\* returns False and copy_file returns None, and neither attempts a write
\* on the device (no probe file, no directory, no data).
C13_ReadOnlyRefusedUnwritten ==
  /\ (call.op = "ensure_music_directory" /\ call.mount_info.read_only)
       => (~call.ok /\ call.writes = <<>>)
  /\ (call.op = "copy_file" /\ call.mount_info.read_only)
       => (call.ret = NoName /\ call.writes = <<>> /\ dev = call.before)

\* ensure_music_directory was called on a read-only mount
C13_Witness ==
  /\ call.op = "ensure_music_directory"
  /\ call.mount_info.read_only
  /\ ~call.ok

\* C14: the second of two successive calls of copy_file with the same,
\* unchanged source and the same destination name returns the same path
\* and performs no write on the device at all.  (A device that fails at
\* the first stat of the second call is not a case of the claim.)
C14_SecondCopyWritesNothing ==
  (call.op = "copy_file" /\ call.repeats /\ call.io # StatFails) =>
     /\ call.ret = call.name
     /\ call.writes = <<>>
     /\ dev = call.before

\* C14 as amended: the second call returns the same path, writes no byte
\* of the destination and leaves the device's files unchanged; the probe
\* file of ensure_music_directory is its only write.
C14_SecondCopySkipsData ==
  (call.op = "copy_file" /\ call.repeats /\ call.io # StatFails) =>
     /\ call.ret = call.name
     /\ call.writes = <<"probe">>
     /\ dev = call.before

\* the second of two successive, identical calls has returned
C14_Witness ==
  /\ call.op = "copy_file"
  /\ call.repeats
  /\ call.n = 2
  /\ call.ret = call.name
  /\ CallPath \in DOMAIN dev

\* C15: whenever the free space is smaller than the size of the source,
\* copy_file returns None and leaves the files of the device unchanged.
C15_ShortSpaceRefused ==
  (/\ call.op = "copy_file"
   /\ call.srcExists
   /\ call.free_space # NoSpace
   /\ SizeOf(call.source) > call.free_space)
    => (call.ret = NoName /\ dev = call.before)

\* C15 as amended: unless the destination already holds a file of the
\* source's size (which copy_file returns without any check of the free
\* space), copy_file yields no path, writes no byte of any file and leaves
\* the files of the device unchanged.
C15_ShortSpaceRefusedUnlessSkipped ==
  (/\ call.op = "copy_file"
   /\ call.srcExists
   /\ call.free_space # NoSpace
   /\ SizeOf(call.source) > call.free_space
   /\ ~(/\ CallPath \in DOMAIN call.before
        /\ call.before[CallPath].size = SizeOf(call.source)))
    => (call.ret = NoName /\ dev = call.before
        /\ call.writes \in {<<>>, <<"probe">>, <<"probe", "mkdir">>})

\* copy_file refused a source larger than the free space of a writable
\* device
C15_Witness ==
  /\ call.op = "copy_file"
  /\ call.srcExists
  /\ call.free_space = 1
  /\ SizeOf(call.source) = 2
  /\ call.writes = <<"probe", "mkdir">>
  /\ call.io = 2
  /\ call.ret = NoName

\* C16: when the destination holds a file of another size than the source
\* and the free space suffices, a copy_file whose source exists, whose
\* device is writable and whose byte copy runs to its end overwrites the
\* file and returns its path: the file then has the source's size and
\* content.
C16_DifferentSizeOverwritten ==
  (/\ call.op = "copy_file"
   /\ call.srcExists
   /\ call.ok
   /\ CallPath \in DOMAIN call.before
   /\ call.before[CallPath].size # SizeOf(call.source)
   /\ call.free_space # NoSpace
   /\ call.free_space >= SizeOf(call.source)
   /\ call.io = SizeOf(call.source))
    => /\ call.ret = call.name
       /\ CallPath \in DOMAIN dev
       /\ dev[CallPath] = ContentOf(call.source)
       /\ dev[CallPath].size = SizeOf(call.source)

\* a file of the user, of size 2, was overwritten by the source of size 1
C16_Witness ==
  /\ call.op = "copy_file"
  /\ call.source = F1
  /\ CallPath \in DOMAIN call.before
  /\ call.before[CallPath] = [size |-> 2, data |-> UserData]
  /\ call.ret = <<"a">>
  /\ "data" \in Range(call.writes)

\* C17: copy_file returns None without any write on the device when the
\* source does not exist, and returns None without creating or changing a
\* file of the device when ensure_music_directory fails.
C17_MissingSourceOrUnwritable ==
  /\ (call.op = "copy_file" /\ ~call.srcExists)
       => (call.ret = NoName /\ call.writes = <<>> /\ dev = call.before)
  /\ (call.op = "copy_file" /\ call.srcExists /\ ~call.ok)
       => (call.ret = NoName /\ "data" \notin Range(call.writes)
           /\ dev = call.before)

\* copy_file was called with a missing source on a device that it could
\* have written to
C17_Witness ==
  /\ call.op = "copy_file"
  /\ ~call.srcExists
  /\ call.ok
  /\ call.free_space = MaxFree
  /\ call.ret = NoName

\* the results of a list of calls of copy_file that are paths
Paths_Of(outcomes) == SelectSeq(outcomes, LAMBDA x : x # NoName)

\* C18: copy_files calls copy_file for every source in input order, returns
\* the paths of the successful copies in input order, and no exception
\* leaves it.
C18_CopyFilesIsolatesFailures ==
  (call.op = "copy_files" /\ pc = "api") =>
     /\ ~call.raised
     /\ call.returned
     /\ call.attempted = call.batch
     /\ copied_files = Paths_Of(call.outcomes)

\* the sources of the attempts of a pass whose copy_file returned a path
RECURSIVE SuccessfulSources(_)
SuccessfulSources(q) ==
  IF q = <<>> THEN <<>>
  ELSE (IF Head(q).ret # NoName /\ ~Head(q).raised
        THEN <<Head(q).source>> ELSE <<>>) \o SuccessfulSources(Tail(q))

\* the sources a pass has passed or will pass to copy_file
PassItems ==
  [i \in 1..Len(attempts) |-> attempts[i].source] \o selected_files

C20_SanitizeCharByChar ==
  (/\ call.op = "_sanitize_filename"
   /\ Len(call.destination_filename) <= MaxNameLen)
    => /\ Len(call.name) = Len(call.destination_filename)
       /\ \A i \in 1..Len(call.name) :
            /\ call.name[i] \in Alnum \cup {" ", "-", "_", "."}
            /\ call.name[i] =
                 IF call.destination_filename[i]
                      \in Alnum \cup {" ", "-", "_", "."}
                 THEN call.destination_filename[i] ELSE "_"

\* a name with two characters to replace has been sanitized
C20_Witness ==
  /\ call.op = "_sanitize_filename"
  /\ call.destination_filename = <<"a", "#", "/">>
  /\ call.name = <<"a", "_", "_">>

\* "Ep _12_ Q&A_.mp3"
ExampleAsSpecified ==
  <<"E", "p", " ", "_", "1", "2", "_", " ", "Q", "&", "A", "_", ".",
    "m", "p", "3">>

\* "Ep _12_ Q_A_.mp3"
ExampleAsSanitized ==
  <<"E", "p", " ", "_", "1", "2", "_", " ", "Q", "_", "A", "_", ".",
    "m", "p", "3">>

\* C21: sanitizing "Ep #12: Q&A!.mp3" yields "Ep _12_ Q&A_.mp3".
C21_ExampleKeepsAmpersand ==
  (call.op = "_sanitize_filename" /\ call.destination_filename = ExampleName)
    => call.name = ExampleAsSpecified

\* C21 as amended: sanitizing "Ep #12: Q&A!.mp3" yields "Ep _12_ Q_A_.mp3":
\* the ampersand is replaced like every other character that is not
\* alphanumeric, a space, a hyphen, an underscore or a dot.
C21_ExampleSanitized ==
  (call.op = "_sanitize_filename" /\ call.destination_filename = ExampleName)
    => call.name = ExampleAsSanitized

\* the example name has been sanitized
C21_Witness ==
  /\ call.op = "_sanitize_filename"
  /\ call.destination_filename = ExampleName
  /\ Len(call.name) = 16

\* the extension os.path.splitext finds in a name
ExtOf(s) == SubSeq(s, ExtStart(s), Len(s))

\* C22: for every name the sanitized name has at most 200 characters, and
\* a name that was shortened still ends with the whole extension of the
\* input.
C22_AtMost200KeepingExtension ==
  call.op = "_sanitize_filename" =>
    /\ Len(call.name) <= 200
    /\ Len(call.destination_filename) > 200 =>
         LET ext == ExtOf(call.destination_filename)
         IN /\ Len(call.name) >= Len(ext)
            /\ SubSeq(call.name, Len(call.name) - Len(ext) + 1,
                      Len(call.name)) = ext

\* the smaller of two numbers
Min(a, b) == IF a <= b THEN a ELSE b

\* os.path.basename of every path of a list
Basenames(file_paths) ==
  [i \in 1..Len(file_paths) |-> basename(file_paths[i])]

C24_SelectionOfMinSize ==
  (pc = "sel_done" /\ call.op = "select_random_songs") =>
    LET all_files == find_all_music_files
        n == Len(all_files)
        c == get_random_songs_count
    IN /\ ~call.raised
       /\ Len(selected_files) = Min(n, IF c < 0 THEN 0 ELSE c)
       /\ \A i, j \in 1..Len(selected_files) :
             i # j => selected_files[i] # selected_files[j]
       /\ Range(selected_files) \subseteq Range(all_files)
       /\ n <= c => selected_files = all_files
\* the devices of the host that are mounted and whose label or mount path
\* contains the pattern
Matching(table) ==
  {i \in 1..Len(table) :
     /\ table[i].at # NotMounted
     /\ Matches(table[i].label) \/ Matches(PathStr(table[i].at))}

\* C25: on every host with a mounted device whose label or mount path
\* contains the pattern, without regard to case, find_device_mount_point
\* returns the mount path of such a device; on every host without one it
\* returns None.  (All the commands of the host work.)
C25_ResolvesMatchingMount ==
  (pc = "det_done" /\ tools = ToolsOk) =>
    IF Matching(mountTable) # {}
    THEN \E i \in Matching(mountTable) : found = PathStr(mountTable[i].at)
    ELSE found = NoPath

\* the match that method k has for the caller: none when it raises
Available(k) ==
  IF k = 1 THEN Caught(Method1(mountTable, tools)).hit
  ELSE IF k = 2 THEN Caught(Method2(mountTable, tools)).hit
  ELSE IF k = 3
       THEN FirstHit([i \in 1..Len(BaseDirs) |->
                        Caught(ScanBase(BaseDirs[i], mountTable, tools)).hit])
  ELSE Caught(Method4(mountTable, tools)).hit

\* C26: find_device_mount_point runs its methods in the order 1, 2, 3, 4
\* and returns the match of the first method that has one; a method that
\* raises or finds nothing is followed by the next one, so that no exception
\* leaves find_device_mount_point and the match of a later method is
\* returned.
C26_MethodsInOrderFaultTolerant ==
  /\ pc # "det_raised"
  /\ \A i \in 1..Len(tried) : tried[i] = i
  /\ \A i \in 1..Len(tried) - 1 : Available(i) = NoPath
  /\ pc = "det_done" =>
       /\ found = FirstHit([k \in 1..4 |-> Available(k)])
       /\ found = NoPath => tried = <<1, 2, 3, 4>>

\* lsblk and /proc/mounts failed, the scan of the directories found
\* nothing, and the match of df was returned
C26_Witness ==
  /\ pc = "det_done"
  /\ tools.lsblk = "raise"
  /\ tools.procmounts = "raise"
  /\ tried = <<1, 2, 3, 4>>
  /\ found = runmedia \o <<"/", "s", "h", "/", "x">>

\* the results of the attempts of wait_for_device
Failed(results) == {i \in 1..Len(results) : results[i] = NoPath}

\* wait_for_device has returned rightly: the mount path of its first
\* successful attempt, or None when the time elapsed is no longer below the
\* timeout and every attempt failed; it slept check_interval after each
\* unsuccessful attempt
WaitReturnedRightly ==
  pc = "wait_done" =>
    LET n == Len(wait.results)
    IN /\ wait.returned
       /\ wait.check_count = n
       /\ wait.ret # NoPath =>
            /\ n >= 1
            /\ wait.results[n] = wait.ret
            /\ Failed(wait.results) = 1..(n - 1)
       /\ wait.ret = NoPath =>
            /\ Failed(wait.results) = 1..n
            /\ clock - wait.start_time >= wait.timeout
       /\ wait.sleeps = Cardinality(Failed(wait.results))
       /\ wait.slept = wait.sleeps * wait.check_interval

\* between two attempts wait_for_device has slept
WaitSleepsBetween ==
  pc = "wait_attempt" =>
    /\ wait.sleeps = Len(wait.results)
    /\ Failed(wait.results) = 1..Len(wait.results)

\* C27: wait_for_device returns the mount path at the first attempt on which
\* find_device_mount_point succeeds, returns None only when the time elapsed
\* has reached the timeout and every attempt made has failed, sleeps
\* check_interval between consecutive unsuccessful attempts, and terminates
\* for every timeout.
C27_WaitForDevice ==
  /\ [](WaitReturnedRightly /\ WaitSleepsBetween)
  /\ <>(pc = "wait_done")

\* the device was plugged in during the wait: two attempts failed, each
\* followed by a sleep, and the third returned the mount path
C27_Witness ==
  /\ pc = "wait_done"
  /\ wait.ret = media \o <<"/", "S", "H">>
  /\ Len(wait.results) = 3
  /\ wait.sleeps = 2
\* C28: whenever the monitor is in Unmounted at a poll boundary, the app
\* holds no FileTransfer.
C28_UnmountedHoldsNoStore ==
  (pc = "poll" /\ ~last_storage_state) => file_transfer = NoTransfer

\* a sync pass made a FileTransfer for the device, the device was unplugged
\* and the loop has seen it
C28_Witness ==
  /\ pc = "poll"
  /\ ~last_storage_state
  /\ ~current_state
  /\ everSampledMounted
  /\ passGen >= 1
  /\ file_transfer = NoTransfer

\* C29: a poll prints the status line exactly when its sample equals the
\* stored state, its number is a multiple of 12 and the state is Unmounted.
C29_HeartbeatExactly ==
  [][check_count' # check_count =>
       (heartbeat' <=> /\ current_state' = last_storage_state
                       /\ check_count' = 0
                       /\ ~last_storage_state)]_vars

\* the twelfth poll of a loop that never saw the device printed the line
C29_Witness ==
  /\ pc = "poll"
  /\ heartbeat
  /\ check_count = 0
  /\ ~everSampledMounted

\* C30: a pass in podcast mode deletes no file of the device and goes on to
\* fetch and copy the episodes: it is not ended by an exception.
C30_PodcastPassKeepsFilesAndFetches ==
  (musicSource = "none" /\ syncCount >= 1) =>
    /\ \A i \in 1..Len(passLog) : passLog[i] # "del"
    /\ pc # "exited"


\* C31: each sync pass resolves the mount path anew and binds its
\* FileTransfer to it: as long as the device has not been mounted again
\* since the pass resolved the path, the path of the pass and of its
\* FileTransfer is the one where the device is mounted now, also after a
\* remount at another path.
C31_PassBoundToFreshPath ==
  (pc \in PassPcs \ {"se_resolve", "se_return"} /\ passGen = mountGen) =>
    /\ mount_point = osPath
    /\ file_transfer = FileTransfer(osPath, get_device_music_directory)

\* the second pass of a run, after a remount of the device at another path
C31_Witness ==
  /\ pc = "rm_copy"
  /\ syncCount = 2
  /\ mountGen = 2
  /\ passGen = 2
  /\ osMounted
  /\ osPath = "p2"
  /\ mount_point = "p2"
  /\ file_transfer.device_mount_point = "p2"


\* the last segment of a path
LastSegment(path) ==
  LET cuts == {i \in 1..Len(path) : path[i] = "/"}
      last == IF cuts = {} THEN 0
              ELSE CHOOSE i \in cuts : \A j \in cuts : j <= i
  IN SubSeq(path, last + 1, Len(path))

\* every device of the host has a label and is mounted: no cell of a row of
\* lsblk is empty
NoEmptyCell(table) ==
  \A i \in 1..Len(table) :
     table[i].label # <<>> /\ table[i].at # NotMounted

\* C32: when method 1 returns the mount path of a disk whose label does not
\* match, the pattern occurs in the last segment of that mount path; its
\* occurring in a parent segment only gives no match.
C32_Method1MatchesLastSegment ==
  (tried = <<1>> /\ tools.lsblk = "ok" /\ NoEmptyCell(mountTable)
     /\ found # NoPath) =>
    \E i \in 1..Len(mountTable) :
       /\ found = Replace(PathStr(mountTable[i].at), <<" ">>, x20)
       /\ \/ Matches(mountTable[i].label)
          \/ Matches(LastSegment(PathStr(mountTable[i].at)))

\* the mounted whole devices (sd* without a partition number) under a
\* removable-media directory whose label or mount path matches
WholeCandidates(table) ==
  {i \in 1..Len(table) :
     /\ table[i].at # NotMounted
     /\ StartsWith(table[i].name, sd)
     /\ ~EndsWithDigit(table[i].name)
     /\ Removable(PathStr(table[i].at))
     /\ Matches(table[i].label) \/ Matches(PathStr(table[i].at))}

\* C33: method 2 keeps a mount whose device is a whole device without a
\* partition number as a candidate, and returns a match when the label or
\* the mount path of such a mount matches.
C33_Method2KeepsWholeDevices ==
  (tried = <<1, 2>> /\ tools.procmounts = "ok" /\ tools.blkid = "ok"
     /\ WholeCandidates(mountTable) # {}) =>
    found # NoPath

\* C34: whichever method produces the match, the path that
\* find_device_mount_point returns is the real path of a mount, with
\* literal spaces where the report of the system had escaped ones.
C34_ReturnedPathIsDecoded ==
  (pc = "det_done" /\ found # NoPath /\ NoEmptyCell(mountTable)) =>
    \E i \in 1..Len(mountTable) : found = PathStr(mountTable[i].at)


\* C35: whenever copy_file returns a destination path, by a copy or by the
\* skip on equal sizes, the file at that path has the content of the source.
C35_ReturnedPathHoldsSourceContent ==
  (call.op = "copy_file" /\ call.ret # NoName /\ ~call.raised) =>
     /\ CallPath \in DOMAIN dev
     /\ dev[CallPath] = ContentOf(call.source)


\* C36: at every poll boundary where the monitor's record says Mounted, the
\* application holds a FileTransfer bound to a resolved mount path: Mounted
\* is not recorded for a pass whose own resolution found no device.
C36_MountedRecordHasStore ==
  (pc = "poll" /\ last_storage_state) =>
     /\ file_transfer # NoTransfer
     /\ file_transfer.device_mount_point # None


(***************************************************************************)
(* The harness that calls sync_episodes(), on a device where the user has  *)
(* put files of their own, and on one whose manifest anyone has written.   *)
(***************************************************************************)
\* a file that the user has put on the device, under a name and of a size
\* that a file of the library has too
UserFile == [size |-> SizeOf(F1), data |-> UserData]

\* what the device holds before the tool first runs: nothing, or a file of
\* the user at the root or in the music directory
UserDevices(music_directory) ==
  { << >>,
    [x \in {<<"", basename(F1)>>} |-> UserFile],
    [x \in {<<music_directory, basename(F1)>>} |-> UserFile] }

\* files of the host: /h, and h in the directory that holds the mount point
HostBefore == {[dir |-> "/", name |-> <<"h">>],
               [dir |-> "..", name |-> <<"h">>]}

\* manifests that the tool did not write: a name, an absolute path, a path
\* through the parent directory
ForeignManifests ==
  { ListManifest(<<basename(F1)>>),
    ListManifest(<<slash \o <<"h">>>>),
    ListManifest(<<updir \o <<"h">>>>) }

UserConfig ==
  /\ hasMusicApi = TRUE
  /\ musicSource \in {"none", "dir"}
  /\ library \in {{}, {F1, F2}}
  /\ musicSource # "dir" => library = {}
  /\ songCount = 1
  /\ musicDir \in MusicDirs
  /\ podcasts \in {0, 1}
  /\ free \in {1, MaxFree}
  /\ pc = "idle"
  /\ InitApp
  /\ DetIdle
  /\ dev \in UserDevices(musicDir)
  /\ devDirs = {d \in {"MUSIC"} : \E p \in DOMAIN dev : p[1] = d}

\* no pass has run yet: the device has no manifest, or a file that is none
UserInit ==
  /\ UserConfig
  /\ manifest \in {NoManifest, CorruptManifest}
  /\ hostFiles = {}

\* the manifest of the device is any file
ForeignInit ==
  /\ UserConfig
  /\ manifest \in ForeignManifests
  /\ hostFiles = HostBefore

UserSpec == UserInit /\ [][PassNext]_vars
ForeignSpec == ForeignInit /\ [][PassNext]_vars

\* C37: a pass deletes only files inside the device's target subdirectory,
\* whatever strings the manifest contains: no file of the host outside the
\* mount is deleted, and no file of the device outside that directory.
C37_DeletesOnlyInMusicDirectory ==
  [][/\ hostFiles' = hostFiles
     /\ \A p \in DOMAIN dev \ DOMAIN dev' : p[1] = get_device_music_directory
    ]_vars

\* C38: over any sequence of passes the tool deletes only files that one of
\* its passes copied: a file that the user put on the device and that no
\* pass wrote is never deleted.
C38_UserFilesNeverDeleted ==
  [][\A p \in DOMAIN dev : dev[p].data = UserData => p \in DOMAIN dev']_vars


\* C39: within one music pass, distinct selected sources end up as distinct
\* files of the device: no copy overwrites, or is skipped in favour of, a
\* file written earlier in the same pass, and the manifest saved has no
\* filename twice.
C39_DistinctSourcesDistinctFiles ==
  /\ \A i, j \in 1..Len(attempts) :
        (/\ i < j
         /\ attempts[i].source # attempts[j].source
         /\ ~attempts[i].raised /\ attempts[i].ret # NoName
         /\ ~attempts[j].raised /\ attempts[j].ret # NoName)
          => attempts[i].ret # attempts[j].ret
  /\ (saved /\ manifest.kind = "list") =>
        \A i, j \in 1..Len(manifest.files) :
           i # j => manifest.files[i] # manifest.files[j]

====
